---- MODULE Spec2Model ----
(***************************************************************************)
(* TokPay offline wallet: the token engine (offlineToken.js), the local    *)
(* wallet store (sqliteWallet), the payment helpers (walletHelpers), the   *)
(* receive-QR engine (qrGenerator) and the chunked BLE transfer            *)
(* (bleTransport.js), as state machines whose steps are the JavaScript     *)
(* turns between two awaits.                                               *)
(***************************************************************************)
EXTENDS Integers, Sequences, FiniteSets, TLC

\* ------------------------------------------------------------------ bounds
\* tokens one run issues
MaxIssued == 3
\* addMoney / deductMoney calls one run makes on one device
MaxOps == 3
\* processOfflinePayment calls one run makes
MaxPayments == 2
\* tokens one run presents to one receiver's listener
MaxReceived == 2
\* the last clock reading of one run, in ticks of 5 minutes
MaxNow == 3
\* receive QR codes one run generates
MaxQr == 2
\* ephemeral keypairs one run generates
MaxKeys == 2
\* sendToken calls one run makes
MaxTransfers == 2
\* notifications one run delivers to the receiveToken listener
MaxDeliveries == 4
\* scanAndConnect calls one run makes
MaxScans == 2

\* -------------------------------------------------------------- constants
\* offlineToken.js MAX_TOKEN_AGE, 24 hours, in clock ticks of 5 minutes
MAX_TOKEN_AGE == 288
\* qrGenerator QR_EXPIRY_TIME_MS, 5 minutes, in clock ticks of 5 minutes
QR_EXPIRY_TIME_MS == 1
\* the sender's balance when a payment run starts
InitialFunds == 2

\* ------------------------------------------------------------- value sets
\* An absent value (JavaScript null / undefined) is a record of its own shape.
None == [none |-> TRUE]

PayerKey == "K1"
\* a key pair of another device
OtherKey == "K2"
SenderDevice == "S"
Receivers == {"R1", "R2"}
Devices == {SenderDevice} \cup Receivers
\* amount arguments a caller may pass; 0 is the rejected one
Amounts == {0, 1, 2}
\* payee arguments a caller may pass; "" is the rejected one
Payees == Receivers \cup {""}
GenIds == {"g1", "g2"}

\* the addMoney / deductMoney calls in flight: two of the wallet screen, one of
\* processOfflinePayment, one of each receiver's applyReceivedPaymentToken
ScreenCalls == {"w1", "w2"}
PayCall == "wp"
WIds == ScreenCalls \cup {PayCall} \cup Receivers

VARIABLES
    now,           \* Date.now()
    tokenCounter,  \* offlineToken.js: let tokenCounter
    gen,           \* the generateToken calls in flight, by call id
    issued,        \* the tokens generateToken has returned, in order of return
    balance,       \* per device: offline_wallet.balance of tokpay.db
    txlog,         \* per device: the rows of the transactions table, oldest first
    wcall,         \* the addMoney / deductMoney calls in flight, by call id
    wops,          \* per device: the addMoney / deductMoney calls made so far
    pay,           \* the sender's processOfflinePayment call
    wire,          \* the tokens written to a peer and not yet reassembled by it
    heard,         \* per receiver: the tokens its listener has reassembled
    rx,            \* per receiver: its handleTokenReceived call
    credited,      \* the successful applyReceivedPaymentToken results: the
                   \* device, the token, and how many times so far (k)
    sessionEphemeralKeypair,  \* cryptoUtils: let sessionEphemeralKeypair
    keyGens,       \* the nacl.sign.keyPair() calls made so far
    qrs,           \* the strings generateReceiveQR has returned, oldest first
    scan,          \* the payer's scanner: its screen, the string it scanned,
                   \* the result of validateQrPayload
    completed,     \* the scanned strings whose payment was reported sent
    peer,          \* the connected device as sendToken sees it: its
                   \* platform and negotiated mtu
    xfer,          \* the sendToken calls, by call number
    air,           \* the chunks written and not yet taken off the link
    receivedChunks,  \* receiveToken: let receivedChunks
    expectedChunks,  \* receiveToken: let expectedChunks
    calls,         \* the onTokenReceived calls made so far, oldest first
    delivered,     \* the (sendToken call, chunk index) pairs notified so far
    sac,           \* bleTransport: the scanAndConnect call: its position, its
                   \* promise, its scan timeout timer
    scanSubscription,  \* bleTransport: let scanSubscription (TRUE: a scan runs)
    found,         \* per peer: the scan callback invoked for it, its position
    conns,         \* the peers to which this device holds an open connection
    currentDevice, \* bleTransport: let currentDevice ("" is null)
    sessionState,  \* bleSessionManager: let sessionState
    adv,           \* per Receive screen instance: its startAdvertisingFlow
    stop,          \* per Receive screen instance: its cleanupBle
    native,        \* TokpayBlePeripheralModule: its fields, the GATT servers
                   \* it holds open, the callbacks Android owes it
    screen,        \* the mounted Receive screen: its state and refs
    emitted,       \* the 'onTokenReceived' events emitted so far
    acks,          \* the blePeripheral.sendAck calls made so far
    trip,          \* the last token a caller took through serializeToken and
                   \* deserializeToken, or changed, and gave to verifyToken
    identity       \* the device identity in AsyncStorage and the
                   \* getDeviceIdentity calls in flight

tokVars == <<tokenCounter, gen, issued>>
walletVars == <<balance, txlog, wcall, wops>>
payVars == <<pay, wire, heard, rx, credited>>
qrVars == <<sessionEphemeralKeypair, keyGens, qrs, scan, completed>>
chunkVars == <<peer, xfer, air, receivedChunks, expectedChunks, calls, delivered>>
scanVars == <<sac, scanSubscription, found, conns, currentDevice>>
rcvVars == <<sessionState, adv, stop, native, screen, emitted, acks>>
codecVars == <<trip, identity>>
bleVars == <<scanVars, rcvVars, codecVars>>
vars == <<now, tokenCounter, gen, issued, balance, txlog, wcall, wops,
          pay, wire, heard, rx, credited,
          sessionEphemeralKeypair, keyGens, qrs, scan, completed,
          peer, xfer, air, receivedChunks, expectedChunks, calls, delivered,
          sac, scanSubscription, found, conns, currentDevice,
          sessionState, adv, stop, native, screen, emitted, acks, trip, identity>>

\* ------------------------------------------------------ Ed25519, symbolic
\* nacl.sign.detached(message, secretKey): only the holder of the secret key
\* of `key` produces a signature that verifies for `key` over `message`.
SignDetached(message, key) == [signer |-> key, msg |-> message]

VerifyDetached(message, signature, publicKey) ==
    /\ signature.signer = publicKey
    /\ signature.msg = message

\* a signed message that leaves the amount out
TokenStringWithoutAmount(token) ==
    <<token.payer_pubkey, token.payee_device_id, token.timestamp, token.counter>>

\* JSON.stringify of the five signed fields, in the fixed order of the source.
TokenString(token) ==
    <<token.payer_pubkey, token.amount, token.payee_device_id,
      token.timestamp, token.counter>>

\* ------------------------------------------------------- generateToken
IdleGen == [pc |-> "idle", amount |-> 0, payee |-> "", seen |-> 0, result |-> None]

\* the synchronous `tokenCounter += 1` of the turn that follows the last await
NextCounterStale(g) == gen[g].seen + 1

NextCounter(g) == tokenCounter + 1

BuildToken(amount, payee, counter, deviceId, key, time) ==
    LET unsigned == [payer_pubkey |-> key, amount |-> amount,
                     payee_device_id |-> payee, timestamp |-> time,
                     counter |-> counter, payer_device_id |-> deviceId]
    IN [payer_pubkey |-> key, amount |-> amount,
        payee_device_id |-> payee, timestamp |-> time,
        counter |-> counter, payer_device_id |-> deviceId,
        signature |-> SignDetached(TokenString(unsigned), key)]

\* the calls that may still return a token
InFlight == Cardinality({g \in GenIds : gen[g].pc \in {"awaitIdentity", "awaitKeypair"}})

\* generateToken up to its first await: the input validation.
GenStart(g, amount, payee) ==
    /\ gen[g].pc = "idle"
    /\ Len(issued) + InFlight < MaxIssued
    /\ IF amount <= 0 \/ payee = ""
       THEN gen' = [gen EXCEPT ![g] = [IdleGen EXCEPT !.pc = "failed"]]
       ELSE gen' = [gen EXCEPT ![g] = [pc |-> "awaitIdentity", amount |-> amount,
                                       payee |-> payee, seen |-> tokenCounter,
                                       result |-> None]]
    /\ UNCHANGED <<tokenCounter, issued>>

\* await getDeviceIdentity() settles.
GenIdentity(g) ==
    /\ gen[g].pc = "awaitIdentity"
    /\ \/ gen' = [gen EXCEPT ![g].pc = "awaitKeypair"]
       \/ gen' = [gen EXCEPT ![g].pc = "failed"]
    /\ UNCHANGED <<tokenCounter, issued>>

\* await getOrCreateKeypair() settles; the rest of generateToken is one turn.
GenKeypair(g) ==
    /\ gen[g].pc = "awaitKeypair"
    /\ \/ LET c == NextCounter(g)
              token == BuildToken(gen[g].amount, gen[g].payee, c,
                                  SenderDevice, PayerKey, now)
          IN /\ tokenCounter' = c
             /\ gen' = [gen EXCEPT ![g].pc = "done", ![g].result = token]
             /\ issued' = Append(issued, [token |-> token, seen |-> gen[g].seen])
       \/ /\ gen' = [gen EXCEPT ![g].pc = "failed"]
          /\ UNCHANGED <<tokenCounter, issued>>

\* the caller takes the result (or the error): the slot is free again.
GenReturn(g) ==
    /\ gen[g].pc \in {"done", "failed"}
    /\ gen' = [gen EXCEPT ![g] = IdleGen]
    /\ UNCHANGED <<tokenCounter, issued>>

ResetCounter ==
    /\ tokenCounter > 0
    /\ tokenCounter' = 0
    /\ UNCHANGED <<gen, issued>>

\* The app restarts: the module is loaded again, `let tokenCounter = 0` runs
\* and the calls that were in flight are gone.
Restart ==
    /\ tokenCounter > 0
    /\ tokenCounter' = 0
    /\ gen' = [g \in GenIds |-> IdleGen]
    /\ UNCHANGED issued

Tick ==
    /\ now < MaxNow
    /\ now' = now + 1

InitTok ==
    /\ now = 1
    /\ tokenCounter = 0
    /\ gen = [g \in GenIds |-> IdleGen]
    /\ issued = <<>>

\* --------------------------------------------------------- wallet store
IdleCall == [pc |-> "idle", dev |-> "", type |-> "", amount |-> 0, newBalance |-> 0]
\* a call that has thrown, and one that has returned
FailedCall == [IdleCall EXCEPT !.pc = "failed"]
DoneCall == [IdleCall EXCEPT !.pc = "done"]

RECURSIVE SumOf(_, _)
\* the sum of the amounts of the rows of `log` whose type is `type`
SumOf(log, type) ==
    IF log = <<>> THEN 0
    ELSE (IF Head(log).type = type THEN Head(log).amount ELSE 0)
         + SumOf(Tail(log), type)

\* the calls on device d that are between two of their statements
Running(d) == {w \in WIds : wcall[w].dev = d
                             /\ wcall[w].pc \in {"select", "update", "insert"}}

\* addMoney / deductMoney without the amount check
WStartUnchecked(w, d, type, amount) ==
    /\ wcall[w].pc = "idle"
    /\ wops[d] < MaxOps
    /\ wops' = [wops EXCEPT ![d] = @ + 1]
    /\ wcall' = [wcall EXCEPT ![w] =
                    [pc |-> "select", dev |-> d, type |-> type,
                     amount |-> amount, newBalance |-> 0]]
    /\ UNCHANGED <<balance, txlog>>

\* addMoney / deductMoney up to the first await: the amount check.
WStart(w, d, type, amount) ==
    /\ wcall[w].pc = "idle"
    /\ wops[d] < MaxOps
    /\ wops' = [wops EXCEPT ![d] = @ + 1]
    /\ wcall' = [wcall EXCEPT ![w] =
                    IF amount <= 0 THEN FailedCall
                    ELSE [pc |-> "select", dev |-> d, type |-> type,
                          amount |-> amount, newBalance |-> 0]]
    /\ UNCHANGED <<balance, txlog>>

\* await getBalance() settles in a deductMoney that computes the new balance
\* without the funds check
WSelectUnchecked(w) ==
    /\ wcall[w].pc = "select"
    /\ LET c == wcall[w]
           currentBalance == balance[c.dev]
       IN \/ /\ c.type = "credit"
             /\ wcall' = [wcall EXCEPT ![w].pc = "update",
                                       ![w].newBalance = currentBalance + c.amount]
          \/ /\ c.type = "debit"
             /\ wcall' = [wcall EXCEPT ![w].pc = "update",
                                       ![w].newBalance = currentBalance - c.amount]
          \/ wcall' = [wcall EXCEPT ![w] = FailedCall]
    /\ UNCHANGED <<balance, txlog, wops>>

\* await getBalance() settles: the SELECT, then the funds check of deductMoney
\* and the new balance, computed from the balance read here.
WSelect(w) ==
    /\ wcall[w].pc = "select"
    /\ LET c == wcall[w]
           currentBalance == balance[c.dev]
       IN \/ /\ c.type = "credit"
             /\ wcall' = [wcall EXCEPT ![w].pc = "update",
                                       ![w].newBalance = currentBalance + c.amount]
          \/ /\ c.type = "debit"
             /\ currentBalance >= c.amount
             /\ wcall' = [wcall EXCEPT ![w].pc = "update",
                                       ![w].newBalance = currentBalance - c.amount]
          \/ /\ c.type = "debit"
             /\ currentBalance < c.amount
             /\ wcall' = [wcall EXCEPT ![w] = FailedCall]
          \/ wcall' = [wcall EXCEPT ![w] = FailedCall]
    /\ UNCHANGED <<balance, txlog, wops>>

\* await db.executeSql('UPDATE offline_wallet SET balance = ?') settles.
WUpdate(w) ==
    /\ wcall[w].pc = "update"
    /\ \/ /\ balance' = [balance EXCEPT ![wcall[w].dev] = wcall[w].newBalance]
          /\ wcall' = [wcall EXCEPT ![w].pc = "insert"]
       \/ /\ wcall' = [wcall EXCEPT ![w] = FailedCall]
          /\ UNCHANGED <<balance, wops>>
    /\ UNCHANGED <<txlog, wops>>

\* await db.executeSql('INSERT INTO transactions') settles.
WInsert(w) ==
    /\ wcall[w].pc = "insert"
    /\ \/ /\ txlog' = [txlog EXCEPT ![wcall[w].dev] =
                          Append(@, [type |-> wcall[w].type,
                                     amount |-> wcall[w].amount])]
          /\ wcall' = [wcall EXCEPT ![w] = DoneCall]
       \/ /\ wcall' = [wcall EXCEPT ![w] = FailedCall]
          /\ UNCHANGED <<txlog, wops>>
    /\ UNCHANGED <<balance, wops>>

\* the caller takes the new balance (or the error)
WReturn(w) ==
    /\ wcall[w].pc \in {"done", "failed"}
    /\ wcall' = [wcall EXCEPT ![w] = IdleCall]
    /\ UNCHANGED <<balance, txlog, wops>>

\* The app stops on device d: its calls in flight never run their next
\* statement; tokpay.db keeps what the statements before wrote.
AppStop(d) ==
    /\ Running(d) # {}
    /\ wcall' = [w \in WIds |-> IF wcall[w].dev = d THEN IdleCall ELSE wcall[w]]
    /\ UNCHANGED <<balance, txlog, wops>>

\* initDatabase: one offline_wallet row of balance 0, no transactions
InitWallet ==
    /\ balance = [d \in Devices |-> 0]
    /\ txlog = [d \in Devices |-> <<>>]
    /\ wcall = [w \in WIds |-> IdleCall]
    /\ wops = [d \in Devices |-> 0]

\* ----------------------------------------------------------- verifyToken
RequiredFields == {"payer_pubkey", "amount", "payee_device_id", "timestamp",
                   "counter", "signature"}

\* verifyToken with the age compared by >= : the boundary age is turned down
VerifyTokenExclusive(token, time) ==
    /\ RequiredFields \subseteq DOMAIN token
    /\ ~(token.amount <= 0)
    /\ ~(time - token.timestamp >= MAX_TOKEN_AGE)
    /\ VerifyDetached(TokenString(token), token.signature, token.payer_pubkey)

\* verifyToken(token) at Date.now() = time: TRUE when it resolves true.
VerifyToken(token, time) ==
    /\ RequiredFields \subseteq DOMAIN token
    /\ ~(token.amount <= 0)
    /\ ~(time - token.timestamp > MAX_TOKEN_AGE)
    /\ VerifyDetached(TokenString(token), token.signature, token.payer_pubkey)

\* ------------------------------------------------- processOfflinePayment
PayGen == "g1"
IdlePay == [pc |-> "idle", amount |-> 0, payee |-> "", token |-> None,
            connected |-> "", result |-> "", n |-> 0]

\* the catch block: disconnect first when a connection was established
PayCatch(p) ==
    IF p.connected # ""
    THEN [p EXCEPT !.pc = "cleanup"]
    ELSE [p EXCEPT !.pc = "returned", !.result = "failed"]

PayStart(amount, payee) ==
    /\ pay.pc = "idle"
    /\ pay.n < MaxPayments
    /\ pay' = [IdlePay EXCEPT !.pc = "permission", !.amount = amount,
                              !.payee = payee, !.n = pay.n + 1]
    /\ UNCHANGED <<wire, heard, rx, credited>>
    /\ UNCHANGED <<tokVars, walletVars>>

\* Step 1: await requestBlePermissions() settles; Step 2 calls generateToken.
PayPermission ==
    /\ pay.pc = "permission"
    /\ \/ /\ pay' = PayCatch(pay)
          /\ UNCHANGED tokVars
       \/ /\ GenStart(PayGen, pay.amount, pay.payee)
          /\ pay' = [pay EXCEPT !.pc = "token"]
    /\ UNCHANGED <<wire, heard, rx, credited>>
    /\ UNCHANGED walletVars

\* Step 2: await generateToken() settles; Step 3 calls scanAndConnect.
PayToken ==
    /\ pay.pc = "token"
    /\ GenReturn(PayGen)
    /\ IF gen[PayGen].pc = "done"
       THEN pay' = [pay EXCEPT !.pc = "scan", !.token = gen[PayGen].result]
       ELSE pay' = PayCatch(pay)
    /\ UNCHANGED <<wire, heard, rx, credited>>
    /\ UNCHANGED walletVars

\* Step 3: await scanAndConnect(payeeDeviceId) settles: it resolves with the
\* first device found advertising the TokPay service, whatever its id, or
\* rejects. Step 4 calls sendToken.
PayScan ==
    /\ pay.pc = "scan"
    /\ \/ \E r \in Receivers : pay' = [pay EXCEPT !.pc = "send", !.connected = r]
       \/ pay' = PayCatch(pay)
    /\ UNCHANGED <<wire, heard, rx, credited>>
    /\ UNCHANGED <<tokVars, walletVars>>

\* Step 4: await sendToken(token, device) settles. It resolves once every
\* chunk is written without response: the peer's listener reassembles the
\* token, or, a chunk being lost on the link, never does. Or a write throws.
\* Step 5 calls deductMoney.
PaySend ==
    /\ pay.pc = "send"
    /\ \/ /\ wire' \in {wire, wire \cup {[to |-> pay.connected, token |-> pay.token]}}
          /\ WStart(PayCall, SenderDevice, "debit", pay.amount)
          /\ pay' = [pay EXCEPT !.pc = "deduct"]
       \/ /\ pay' = PayCatch(pay)
          /\ UNCHANGED <<wire, walletVars>>
    /\ UNCHANGED <<heard, rx, credited>>
    /\ UNCHANGED tokVars

\* Step 5: await deductMoney(amount) settles; Step 6 calls disconnect.
PayDeduct ==
    /\ pay.pc = "deduct"
    /\ WReturn(PayCall)
    /\ IF wcall[PayCall].pc = "done"
       THEN pay' = [pay EXCEPT !.pc = "disconnect"]
       ELSE pay' = PayCatch(pay)
    /\ UNCHANGED <<wire, heard, rx, credited>>
    /\ UNCHANGED tokVars

\* Step 6: await disconnect() settles; the call returns success.
PayDisconnect ==
    /\ pay.pc = "disconnect"
    /\ pay' = [pay EXCEPT !.pc = "returned", !.result = "success", !.connected = ""]
    /\ UNCHANGED <<wire, heard, rx, credited>>
    /\ UNCHANGED <<tokVars, walletVars>>

\* the catch block's await disconnect() settles; the call returns failure.
PayCleanup ==
    /\ pay.pc = "cleanup"
    /\ pay' = [pay EXCEPT !.pc = "returned", !.result = "failed", !.connected = ""]
    /\ UNCHANGED <<wire, heard, rx, credited>>
    /\ UNCHANGED <<tokVars, walletVars>>

\* the send screen shows the result; the next payment may start
PayReturn ==
    /\ pay.pc = "returned"
    /\ pay' = [IdlePay EXCEPT !.n = pay.n]
    /\ UNCHANGED <<wire, heard, rx, credited>>
    /\ UNCHANGED <<tokVars, walletVars>>

\* the sender's app restarts between two payments
PayRestart ==
    /\ pay.pc = "idle"
    /\ Restart
    /\ UNCHANGED payVars
    /\ UNCHANGED walletVars

\* ------------------------------- handleTokenReceived on a receiving device
IdleRx == [pc |-> "idle", token |-> None, n |-> 0]

\* how many times device r has credited token t
TimesCredited(r, t) == Cardinality({c \in credited : c.dev = r /\ c.token = t})

\* the listener's onTokenReceived(token, null): for a token just written to
\* this device, or for one written before and presented again (a duplicate
\* notification, a replayed write).
RxReceive(r, t) ==
    /\ rx[r].pc = "idle"
    /\ rx[r].n < MaxReceived
    /\ \/ /\ [to |-> r, token |-> t] \in wire
          /\ wire' = wire \ {[to |-> r, token |-> t]}
          /\ heard' = [heard EXCEPT ![r] = @ \cup {t}]
       \/ /\ t \in heard[r]
          /\ UNCHANGED <<wire, heard>>
    /\ rx' = [rx EXCEPT ![r] = [pc |-> "verify", token |-> t, n |-> rx[r].n + 1]]
    /\ UNCHANGED <<pay, credited>>
    /\ UNCHANGED <<tokVars, walletVars>>

\* applyReceivedPaymentToken: await processReceivedToken(token) settles, that
\* is verifyToken has; on success addMoney(result.amount) is called.
RxVerify(r) ==
    /\ rx[r].pc = "verify"
    /\ IF VerifyToken(rx[r].token, now)
       THEN /\ WStart(r, r, "credit", rx[r].token.amount)
            /\ rx' = [rx EXCEPT ![r].pc = "credit"]
       ELSE /\ rx' = [rx EXCEPT ![r] = [IdleRx EXCEPT !.n = rx[r].n]]
            /\ UNCHANGED walletVars
    /\ UNCHANGED <<pay, wire, heard, credited>>
    /\ UNCHANGED tokVars

\* applyReceivedPaymentToken: await addMoney() settles; success: true is
\* returned and handleTokenReceived logs 'ACK sent to sender', or the error
\* is caught and success: false is returned.
RxCredit(r) ==
    /\ rx[r].pc = "credit"
    /\ WReturn(r)
    /\ IF wcall[r].pc = "done"
       THEN credited' = credited \cup {[dev |-> r, token |-> rx[r].token,
                                         k |-> TimesCredited(r, rx[r].token) + 1]}
       ELSE UNCHANGED credited
    /\ rx' = [rx EXCEPT ![r] = [IdleRx EXCEPT !.n = rx[r].n]]
    /\ UNCHANGED <<pay, wire, heard>>
    /\ UNCHANGED tokVars

InitPayVars ==
    /\ pay = IdlePay
    /\ wire = {}
    /\ heard = [r \in Receivers |-> {}]
    /\ rx = [r \in Receivers |-> IdleRx]
    /\ credited = {}

\* --------------------------------------------- receive QR (qrGenerator)
TOKPAY_SERVICE_UUID == "0000ffe0-0000-1000-8000-00805f9b34fb"
QR_PROTOCOL_V1 == "1.0"
QR_PROTOCOL_V2 == "2.0"

\* the device on the Receive screen and what getDeviceIdentity returns there
QrDevice == "R1"
QrDeviceName == "R1-phone"
\* the keypairs nacl.sign.keyPair() returns, in order of generation
EphemeralKeys == <<"E1", "E2", "E3">>

\* JSON.stringify of a plain object, and JSON.parse, which throws on a string
\* that is no JSON text
JsonStringify(obj) == [json |-> obj]
IsJson(str) == "json" \in DOMAIN str
JsonParse(str) == str.json

\* !payload[field]: the property is missing, an empty string, or the number 0
QrStringFields == {"device_id", "device_name", "ble_service_uuid",
                   "ephemeral_public_key", "nonce", "version", "intent"}
Falsy(obj, field) ==
    \/ field \notin DOMAIN obj
    \/ field \in QrStringFields /\ obj[field] = ""
    \/ field = "timestamp" /\ obj[field] = 0

\* the first field of the list that the loop `for (const field of ...)` finds
\* falsy, or 0
FirstFalsy(obj, fields) ==
    LET bad == {i \in 1..Len(fields) : Falsy(obj, fields[i])}
    IN IF bad = {} THEN 0 ELSE CHOOSE i \in bad : \A j \in bad : i <= j

Without(obj, field) == [f \in DOMAIN obj \ {field} |-> obj[f]]

signQRPayload(payload, keypair) ==
    SignDetached(JsonStringify(payload), keypair.secretKey)

verifyQRSignature(payload, signature, publicKey) ==
    VerifyDetached(JsonStringify(Without(payload, "signature")),
                   signature, publicKey)

\* the object generateReceiveQR signs and serializes
ReceivePayload(deviceId, deviceName, keypair, time, nonce) ==
    LET payload ==
          [version |-> QR_PROTOCOL_V2,
           conn |-> [device_id |-> deviceId, device_name |-> deviceName,
                     ble_service_uuid |-> TOKPAY_SERVICE_UUID,
                     ephemeral_public_key |-> keypair.publicKey],
           tx |-> [intent |-> "receive", timestamp |-> time, nonce |-> nonce]]
    IN [version |-> payload.version, conn |-> payload.conn, tx |-> payload.tx,
        signature |-> signQRPayload(payload, keypair)]

Keypair(n) == [publicKey |-> EphemeralKeys[n], secretKey |-> EphemeralKeys[n]]

\* generateReceiveQR with a keypair made by every call
generateReceiveQRFreshKey(deviceId, deviceName) ==
    IF deviceId = "" \/ deviceName = ""
    THEN UNCHANGED qrVars
    ELSE /\ Len(qrs) < MaxQr
         /\ keyGens < MaxKeys
         /\ LET keypair == Keypair(keyGens + 1)
                nonce == "n" \o ToString(Len(qrs) + 1)
            IN /\ sessionEphemeralKeypair' = keypair
               /\ keyGens' = keyGens + 1
               /\ qrs' = Append(qrs, JsonStringify(
                     ReceivePayload(deviceId, deviceName, keypair, now, nonce)))
         /\ UNCHANGED <<scan, completed>>

\* generateReceiveQR({deviceId, deviceName}); getSessionEphemeralKeypair makes
\* a keypair when none is cached; generateNonce draws 32 random bytes, a value
\* no earlier call drew. With an empty argument it throws before either.
generateReceiveQR(deviceId, deviceName) ==
    IF deviceId = "" \/ deviceName = ""
    THEN UNCHANGED qrVars
    ELSE /\ Len(qrs) < MaxQr
         /\ sessionEphemeralKeypair = None => keyGens < MaxKeys
         /\ LET fresh == sessionEphemeralKeypair = None
                keypair == IF fresh THEN Keypair(keyGens + 1)
                           ELSE sessionEphemeralKeypair
                nonce == "n" \o ToString(Len(qrs) + 1)
            IN /\ sessionEphemeralKeypair' = keypair
               /\ keyGens' = IF fresh THEN keyGens + 1 ELSE keyGens
               /\ qrs' = Append(qrs, JsonStringify(
                     ReceivePayload(deviceId, deviceName, keypair, now, nonce)))
         /\ UNCHANGED <<scan, completed>>

resetSessionEphemeralKey ==
    /\ sessionEphemeralKeypair # None
    /\ sessionEphemeralKeypair' = None
    /\ UNCHANGED <<keyGens, qrs, scan, completed>>

QrFail(message) == [success |-> FALSE, message |-> message]
QrOk(payload) == [success |-> TRUE,
                  message |-> "QR payload verified successfully",
                  payload |-> payload]

V1Required == <<"device_id", "device_name", "ble_service_uuid",
                "ephemeral_public_key", "nonce", "timestamp", "version",
                "signature">>
ConnRequired == <<"device_id", "device_name", "ble_service_uuid",
                  "ephemeral_public_key">>
TxRequired == <<"intent", "timestamp", "nonce">>

VerifyV1(payload, time) ==
    LET missing == FirstFalsy(payload, V1Required)
    IN IF missing # 0
       THEN QrFail("Missing required field: " \o V1Required[missing])
       ELSE IF payload.ble_service_uuid # TOKPAY_SERVICE_UUID
       THEN QrFail("Invalid BLE service UUID")
       ELSE IF time - payload.timestamp > QR_EXPIRY_TIME_MS
       THEN QrFail("QR code expired")
       ELSE IF ~verifyQRSignature(payload, payload.signature,
                                  payload.ephemeral_public_key)
       THEN QrFail("Invalid signature")
       ELSE QrOk(payload)

\* verifyReceiveQR's version 2 branch with the signature verified before the age
VerifyV2SignatureFirst(payload, time) ==
    LET top == FirstFalsy(payload, <<"version", "conn", "tx", "signature">>)
    IN IF top # 0
       THEN QrFail("Missing required field: "
                   \o <<"version", "conn", "tx", "signature">>[top])
       ELSE IF FirstFalsy(payload.conn, ConnRequired) # 0
       THEN QrFail("Missing required BLE field: conn."
                   \o ConnRequired[FirstFalsy(payload.conn, ConnRequired)])
       ELSE IF payload.conn.ble_service_uuid # TOKPAY_SERVICE_UUID
       THEN QrFail("Invalid BLE service UUID")
       ELSE IF FirstFalsy(payload.tx, TxRequired) # 0
       THEN QrFail("Missing required tx field: tx."
                   \o TxRequired[FirstFalsy(payload.tx, TxRequired)])
       ELSE IF payload.tx.intent # "receive"
       THEN QrFail("Unsupported tx intent")
       ELSE IF ~verifyQRSignature(payload, payload.signature,
                                  payload.conn.ephemeral_public_key)
       THEN QrFail("Invalid signature")
       ELSE IF time - payload.tx.timestamp > QR_EXPIRY_TIME_MS
       THEN QrFail("QR intent expired")
       ELSE QrOk(payload)

VerifyV2(payload, time) ==
    LET top == FirstFalsy(payload, <<"version", "conn", "tx", "signature">>)
    IN IF top # 0
       THEN QrFail("Missing required field: "
                   \o <<"version", "conn", "tx", "signature">>[top])
       ELSE IF FirstFalsy(payload.conn, ConnRequired) # 0
       THEN QrFail("Missing required BLE field: conn."
                   \o ConnRequired[FirstFalsy(payload.conn, ConnRequired)])
       ELSE IF payload.conn.ble_service_uuid # TOKPAY_SERVICE_UUID
       THEN QrFail("Invalid BLE service UUID")
       ELSE IF FirstFalsy(payload.tx, TxRequired) # 0
       THEN QrFail("Missing required tx field: tx."
                   \o TxRequired[FirstFalsy(payload.tx, TxRequired)])
       ELSE IF payload.tx.intent # "receive"
       THEN QrFail("Unsupported tx intent")
       ELSE IF time - payload.tx.timestamp > QR_EXPIRY_TIME_MS
       THEN QrFail("QR intent expired")
       ELSE IF ~verifyQRSignature(payload, payload.signature,
                                  payload.conn.ephemeral_public_key)
       THEN QrFail("Invalid signature")
       ELSE QrOk(payload)

verifyReceiveQR(qrString, time) ==
    IF ~IsJson(qrString)
    THEN QrFail("Verification failed")
    ELSE LET payload == JsonParse(qrString)
         IN IF "version" \notin DOMAIN payload
            THEN QrFail("Unsupported protocol version: missing")
            ELSE IF payload.version = QR_PROTOCOL_V1
            THEN VerifyV1(payload, time)
            ELSE IF payload.version # QR_PROTOCOL_V2
            THEN QrFail("Unsupported protocol version: " \o payload.version)
            ELSE VerifyV2(payload, time)

\* `const {device_id, device_name, ble_service_uuid} = verification.payload`:
\* a property the payload does not have at its top level is undefined, which
\* is a result record without that field
Destructured(payload) ==
    LET has(f) == f \in DOMAIN payload
        d1 == IF has("device_id") THEN {"deviceId"} ELSE {}
        d2 == IF has("device_name") THEN {"deviceName"} ELSE {}
        d3 == IF has("ble_service_uuid") THEN {"bleServiceUuid"} ELSE {}
        from == [deviceId |-> "device_id", deviceName |-> "device_name",
                 bleServiceUuid |-> "ble_service_uuid"]
    IN [f \in d1 \cup d2 \cup d3 |-> payload[from[f]]]

validateQrPayload(qrString, time) ==
    LET verification == verifyReceiveQR(qrString, time)
    IN IF ~verification.success
       THEN [valid |-> FALSE, deviceId |-> "", deviceName |-> "",
             bleServiceUuid |-> "",
             error |-> "Invalid QR: " \o verification.message]
       ELSE [valid |-> TRUE, error |-> ""]
            @@ Destructured(verification.payload)

\* what a payer's camera may be shown besides the strings of qrs: a version 1
\* payload signed by its issuer, a payload of a later version, a text that is
\* no JSON
V1Grant(time) ==
    LET unsigned == [version |-> QR_PROTOCOL_V1, device_id |-> QrDevice,
                     device_name |-> QrDeviceName,
                     ble_service_uuid |-> TOKPAY_SERVICE_UUID,
                     ephemeral_public_key |-> "L1", nonce |-> "n0",
                     timestamp |-> time]
    IN unsigned @@ [signature |-> SignDetached(JsonStringify(unsigned), "L1")]
NotJson == [text |-> "hello"]
QrInputs ==
    {qrs[i] : i \in 1..Len(qrs)}
        \cup {JsonStringify(V1Grant(1)), JsonStringify([version |-> "3.0"]),
              NotJson}

\* the payloads a payer's camera may be shown with every required field in
\* place: the flat layout of version 1.0 and the conn/tx layout of version
\* 2.0, under their own version or a later one, with the TokPay service UUID
\* or another, stamped at any tick, signed by the embedded key or another
OtherServiceUuid == "0000180f-0000-1000-8000-00805f9b34fb"
GrantUuids == {TOKPAY_SERVICE_UUID, OtherServiceUuid}
GrantStamps == 1..MaxNow
GrantSigners == {"E1", "X1"}
FlatGrant(version, uuid, stamp, signer) ==
    LET unsigned == [version |-> version, device_id |-> QrDevice,
                     device_name |-> QrDeviceName, ble_service_uuid |-> uuid,
                     ephemeral_public_key |-> "E1", nonce |-> "n0",
                     timestamp |-> stamp]
    IN unsigned @@ [signature |-> SignDetached(JsonStringify(unsigned), signer)]
NestedGrant(version, uuid, stamp, signer) ==
    LET unsigned == [version |-> version,
                     conn |-> [device_id |-> QrDevice, device_name |-> QrDeviceName,
                               ble_service_uuid |-> uuid,
                               ephemeral_public_key |-> "E1"],
                     tx |-> [intent |-> "receive", timestamp |-> stamp,
                             nonce |-> "n0"]]
    IN unsigned @@ [signature |-> SignDetached(JsonStringify(unsigned), signer)]
CraftedGrants ==
    {JsonStringify(FlatGrant(v, u, t, k)) :
        v \in {QR_PROTOCOL_V1, "3.0"}, u \in GrantUuids, t \in GrantStamps,
        k \in GrantSigners}
    \cup {JsonStringify(NestedGrant(v, u, t, k)) :
        v \in {QR_PROTOCOL_V2, "3.0"}, u \in GrantUuids, t \in GrantStamps,
        k \in GrantSigners}

\* ScanScreen onCodeScanned: the first code of a frame goes to
\* validateQrPayload; a valid one navigates to SendAmount with its deviceId,
\* an invalid one raises an alert
IdleScan == [pc |-> "scanning", qr |-> None, validation |-> None]

onCodeScanned(qrValue) ==
    /\ scan.pc = "scanning"
    /\ LET validation == validateQrPayload(qrValue, now)
       IN scan' = [pc |-> IF validation.valid THEN "SendAmount" ELSE "alert",
                   qr |-> qrValue, validation |-> validation]
    /\ UNCHANGED <<sessionEphemeralKeypair, keyGens, qrs, completed>>

\* the alert's OK button: setScanned(false)
AlertOk ==
    /\ scan.pc = "alert"
    /\ scan' = IdleScan
    /\ UNCHANGED <<sessionEphemeralKeypair, keyGens, qrs, completed>>

\* SendAmountScreen handleConfirmSend: processOfflinePayment(amount, walletId)
\* with walletId the scanned deviceId. generateToken throws on a payee that is
\* undefined or empty; otherwise the payment is reported sent (sent) or fails
\* at a later step. A sent payment resets the navigation to Home, from where
\* the scanner opens again; a failed one leaves the screen as it is.
handleConfirmSend(sent) ==
    /\ scan.pc = "SendAmount"
    /\ LET walletIdOk == /\ "deviceId" \in DOMAIN scan.validation
                         /\ scan.validation.deviceId # ""
       IN IF walletIdOk /\ sent
          THEN /\ completed' = completed \cup {scan.qr}
               /\ scan' = IdleScan
          ELSE UNCHANGED <<scan, completed>>
    /\ UNCHANGED <<sessionEphemeralKeypair, keyGens, qrs>>

\* the back button of the Send Amount screen
GoBack ==
    /\ scan.pc = "SendAmount"
    /\ scan' = IdleScan
    /\ UNCHANGED <<sessionEphemeralKeypair, keyGens, qrs, completed>>

InitQr ==
    /\ sessionEphemeralKeypair = None
    /\ keyGens = 0
    /\ qrs = <<>>
    /\ scan = IdleScan
    /\ completed = {}

\* ------------------------------------ chunked transfer (bleTransport.js)
\* A string is a sequence of characters. A serialized token is a base64
\* string; the model keeps one character of it per JSON key and one per JSON
\* value, so a token is 16 characters long. Base64 and header characters are
\* ASCII: encodeUtf8 gives one byte per character.
Platforms == {"android", "ios"}
\* device.mtu; 0 stands for a value that is no positive number
Mtus == {0, 23, 24, 26, 34}
Peers == [os : Platforms, mtu : Mtus]
XferIds == 1..MaxTransfers

Max(a, b) == IF a >= b THEN a ELSE b
Min(a, b) == IF a <= b THEN a ELSE b

getMaxWriteBytes(device) ==
    IF device.os = "android" /\ device.mtu > 0
    THEN Max(20, device.mtu - 3)
    ELSE 20

encodeUtf8ByteLength(str) == Len(str)

\* the properties of a token in the order generateToken sets them, which is
\* the order JSON.stringify writes them
TokenFields == <<"payer_pubkey", "amount", "payee_device_id", "timestamp",
                 "counter", "payer_device_id", "signature">>
FieldIndex(f) == CHOOSE k \in 1..Len(TokenFields) : TokenFields[k] = f

\* the values a property of a token can take in a run
FieldValues(f) ==
    CASE f = "payer_pubkey" -> {PayerKey}
      [] f = "amount" -> Amounts
      [] f = "payee_device_id" -> Receivers
      [] f = "timestamp" -> 0..MaxNow
      [] f = "counter" -> 1..MaxIssued
      [] f = "payer_device_id" -> {SenderDevice}
      [] f = "signature" ->
            {SignDetached(<<PayerKey, a, p, t, c>>, PayerKey) :
                a \in Amounts, p \in Receivers, t \in 0..MaxNow,
                c \in 1..MaxIssued}

serializeToken(token) ==
    [i \in 1..(2 * Len(TokenFields) + 2) |->
        IF i = 1 THEN "{"
        ELSE IF i = 2 * Len(TokenFields) + 2 THEN "}"
        ELSE IF i % 2 = 0 THEN TokenFields[i \div 2]
        ELSE ToString(token[TokenFields[i \div 2]])]

\* decodeBase64, decodeUtf8 and JSON.parse accept the string
Deserializes(str) ==
    /\ Len(str) = 2 * Len(TokenFields) + 2
    /\ str[1] = "{"
    /\ str[Len(str)] = "}"
    /\ \A k \in 1..Len(TokenFields) :
          /\ str[2 * k] = TokenFields[k]
          /\ \E v \in FieldValues(TokenFields[k]) : ToString(v) = str[2 * k + 1]

\* a parser that keeps the fields verifyToken requires and no other
deserializeTokenRequiredOnly(str) ==
    [f \in RequiredFields |->
        CHOOSE v \in FieldValues(f) : ToString(v) = str[2 * FieldIndex(f) + 1]]

deserializeToken(str) ==
    [f \in {TokenFields[k] : k \in 1..Len(TokenFields)} |->
        CHOOSE v \in FieldValues(f) : ToString(v) = str[2 * FieldIndex(f) + 1]]

\* the decimal digits of `${n}`
RECURSIVE Digits(_)
Digits(n) ==
    IF n < 0 THEN <<"-">> \o Digits(0 - n)
    ELSE IF n < 10 THEN <<ToString(n)>>
    ELSE Digits(n \div 10) \o <<ToString(n % 10)>>

\* `${i}/${totalChunks}:`
Header(i, totalChunks) == Digits(i) \o <<"/">> \o Digits(totalChunks) \o <<":">>

\* the for loop of sendToken: substrings of maxFragmentLen characters
Fragments(str, maxFragmentLen) ==
    [k \in 1..((Len(str) + maxFragmentLen - 1) \div maxFragmentLen) |->
        SubSeq(str, (k - 1) * maxFragmentLen + 1,
               Min(k * maxFragmentLen, Len(str)))]

\* the while (true) loop of sendToken: shrink the fragments until the last
\* chunk, header included, fits the write size
RECURSIVE FitFragments(_, _, _)
FitFragments(str, maxWriteBytes, maxFragmentLen) ==
    LET fragments == Fragments(str, maxFragmentLen)
        totalChunks == Len(fragments)
        testPayload == Header(totalChunks - 1, totalChunks)
                          \o fragments[totalChunks]
    IN IF encodeUtf8ByteLength(testPayload) <= maxWriteBytes
       THEN fragments
       ELSE FitFragments(str, maxWriteBytes, Max(1, maxFragmentLen - 1))

SendFragments(token, device) ==
    LET maxWriteBytes == getMaxWriteBytes(device)
    IN FitFragments(serializeToken(token), maxWriteBytes,
                    Max(1, maxWriteBytes - 15))

\* `${i}/${totalChunks}:${fragment}`, i counted from 0
ChunkData(fragments, i) == Header(i, Len(fragments)) \o fragments[i + 1]

\* the tokens a run sends: generateToken results for payee R1 at time 1
ChunkTokens ==
    {BuildToken(a, "R1", c, SenderDevice, PayerKey, 1) : a \in {1, 2}, c \in {1, 2}}

IdleXfer == [pc |-> "idle", token |-> None, fragments |-> <<>>, next |-> 0]

Written(x, fragments, i) ==
    [x |-> x, index |-> i, total |-> Len(fragments),
     payload |-> ChunkData(fragments, i)]

\* one pass of the write loop: the chunk goes on the link, or it is longer
\* than the write size and sendToken throws
WriteChunk(x, fragments, i) ==
    IF encodeUtf8ByteLength(ChunkData(fragments, i)) > getMaxWriteBytes(peer)
    THEN /\ xfer' = [xfer EXCEPT ![x].pc = "failed"]
         /\ UNCHANGED air
    ELSE /\ xfer' = [xfer EXCEPT ![x].pc = "writing",
                                 ![x].fragments = fragments,
                                 ![x].next = i + 1]
         /\ air' = air \cup {Written(x, fragments, i)}

\* sendToken(token, device) up to `await targetDevice.isConnected()`; a
\* device carries one sendToken call at a time
SendStart(x, token) ==
    /\ xfer[x].pc = "idle"
    /\ \A y \in XferIds : y < x => xfer[y].pc \in {"done", "failed"}
    /\ xfer' = [xfer EXCEPT ![x] = [IdleXfer EXCEPT !.pc = "isConnected",
                                                    !.token = token]]
    /\ UNCHANGED <<peer, air, receivedChunks, expectedChunks, calls, delivered>>

\* isConnected resolved true: serialize, cut into fragments, write chunk 0
SendConnected(x) ==
    /\ xfer[x].pc = "isConnected"
    /\ WriteChunk(x, SendFragments(xfer[x].token, peer), 0)
    /\ UNCHANGED <<peer, receivedChunks, expectedChunks, calls, delivered>>

\* the write resolved and, before a further chunk, the 30 ms pause passed:
\* write the next chunk, or return true after the last
SendNext(x) ==
    /\ xfer[x].pc = "writing"
    /\ IF xfer[x].next = Len(xfer[x].fragments)
       THEN /\ xfer' = [xfer EXCEPT ![x].pc = "done"]
            /\ UNCHANGED air
       ELSE WriteChunk(x, xfer[x].fragments, xfer[x].next)
    /\ UNCHANGED <<peer, receivedChunks, expectedChunks, calls, delivered>>

\* isConnected resolved false, or a write rejected (the link dropped):
\* sendToken throws
SendFail(x) ==
    /\ xfer[x].pc \in {"isConnected", "writing"}
    /\ xfer' = [xfer EXCEPT ![x].pc = "failed"]
    /\ UNCHANGED <<peer, air, receivedChunks, expectedChunks, calls, delivered>>

\* ---- receiveToken: the monitorCharacteristicForService callback
\* Number(NaN) names no count and is the property "NaN" of an object
NaN == 0 - 1
Undefined == <<"undefined">>

\* String.prototype.split with a one-character separator
RECURSIVE Split(_, _)
Split(str, sep) ==
    IF \A i \in 1..Len(str) : str[i] # sep
    THEN <<str>>
    ELSE LET i == CHOOSE j \in 1..Len(str) :
                    str[j] = sep /\ \A k \in 1..(j - 1) : str[k] # sep
         IN <<SubSeq(str, 1, i - 1)>> \o Split(SubSeq(str, i + 1, Len(str)), sep)

DecimalDigits == {ToString(d) : d \in 0..9}
RECURSIVE Decimal(_)
Decimal(str) ==
    IF str = <<>> THEN 0
    ELSE 10 * Decimal(SubSeq(str, 1, Len(str) - 1))
           + (CHOOSE d \in 0..9 : ToString(d) = str[Len(str)])

\* Number(string): 0 for the empty string, NaN for what is no numeral
Number(str) ==
    IF \A i \in 1..Len(str) : str[i] \in DecimalDigits
    THEN Decimal(str)
    ELSE NaN

\* receivedChunks[currentIndex] = chunkData, in arrival position instead
StoreChunkInArrivalOrder(chunks, currentIndex, chunkData) ==
    (Cardinality(DOMAIN chunks) :> chunkData) @@ chunks

\* receivedChunks[currentIndex] = chunkData
StoreChunk(chunks, currentIndex, chunkData) ==
    (currentIndex :> chunkData) @@ chunks

\* fullTokenString += receivedChunks[i] for i below expectedChunks; a missing
\* property reads undefined and appends the text "undefined"
RECURSIVE Reassemble(_, _)
Reassemble(chunks, n) ==
    IF n <= 0 THEN <<>>
    ELSE Reassemble(chunks, n - 1)
           \o (IF (n - 1) \in DOMAIN chunks THEN chunks[n - 1] ELSE Undefined)

ParseError == [token |-> None, error |-> "Failed to parse received token",
               str |-> <<>>]
ReceiveError == [token |-> None, error |-> "Receive failed", str |-> <<>>]
NoChunks == <<>>

\* the callback on a notification whose decoded value is rawData
OnNotification(rawData) ==
    IF rawData = <<>>
    THEN /\ calls' = Append(calls, ParseError)
         /\ UNCHANGED <<receivedChunks, expectedChunks>>
    ELSE LET parts == Split(rawData, ":")
             chunkInfo == parts[1]
             chunkData == IF Len(parts) >= 2 THEN parts[2] ELSE Undefined
             numbers == Split(chunkInfo, "/")
             currentIndex == Number(numbers[1])
             totalChunks == IF Len(numbers) >= 2 THEN Number(numbers[2])
                            ELSE NaN
             stored == StoreChunk(receivedChunks, currentIndex, chunkData)
             fullTokenString == Reassemble(stored, totalChunks)
         IN IF Cardinality(DOMAIN stored) # totalChunks
            THEN /\ receivedChunks' = stored
                 /\ expectedChunks' = totalChunks
                 /\ UNCHANGED calls
            ELSE IF Deserializes(fullTokenString)
            THEN /\ calls' = Append(calls,
                        [token |-> deserializeToken(fullTokenString),
                         error |-> "", str |-> fullTokenString])
                 /\ receivedChunks' = NoChunks
                 /\ expectedChunks' = 0
            ELSE /\ calls' = Append(calls, ParseError)
                 /\ receivedChunks' = stored
                 /\ expectedChunks' = totalChunks

\* a written chunk is notified to the listener; the link may deliver it once
\* (keep FALSE) or leave it to be delivered again (keep TRUE)
Notify(c, keep) ==
    /\ Len(delivered) < MaxDeliveries
    /\ OnNotification(c.payload)
    /\ delivered' = Append(delivered, [x |-> c.x, index |-> c.index])
    /\ air' = IF keep THEN air ELSE air \ {c}
    /\ UNCHANGED <<peer, xfer>>

\* a peer that writes a chunk of its own making: the fragment of c under an
\* index outside 0..total-1, or under another total. The fragment of c has
\* then reached the listener, and is logged as such.
NotifyForged(c, i, n) ==
    /\ Len(delivered) < MaxDeliveries
    /\ <<i, n>> # <<c.index, c.total>>
    /\ OnNotification(Header(i, n) \o Split(c.payload, ":")[2])
    /\ delivered' = Append(delivered, [x |-> c.x, index |-> c.index])
    /\ UNCHANGED <<peer, xfer, air>>

\* the monitor reports an error (the peer disconnected)
MonitorError ==
    /\ Len(delivered) < MaxDeliveries
    /\ calls' = Append(calls, ReceiveError)
    /\ delivered' = Append(delivered, [x |-> 0, index |-> NaN])
    /\ UNCHANGED <<peer, xfer, air, receivedChunks, expectedChunks>>

\* a listener that receiveToken has just set up, and no sendToken call yet
NoTransfer ==
    /\ xfer = [x \in XferIds |-> IdleXfer]
    /\ air = {}
    /\ receivedChunks = NoChunks
    /\ expectedChunks = 0
    /\ calls = <<>>
    /\ delivered = <<>>

InitChunk ==
    /\ peer = [os |-> "android", mtu |-> 23]
    /\ NoTransfer

\* ------------------------------------------ bleTransport: scanAndConnect
\* Device references are the device ids; "" is null.
ScanPeers == Receivers
IdleConnect == [pc |-> "idle", outcome |-> "", result |-> "", timer |-> FALSE,
                n |-> 0]

\* resolve(device) / reject(error) of the promise scanAndConnect returned: a
\* promise settles once, later calls change nothing
Settle(s, outcome, result) ==
    IF s.outcome = "pending"
    THEN [s EXCEPT !.outcome = outcome, !.result = result]
    ELSE s

\* no scan callback of the call is between two awaits
CallbacksAtRest == \A d \in ScanPeers : found[d] \in {"none", "done", "failed"}

\* scanAndConnect is called: await requestBlePermissions()
ScanStart ==
    /\ sac.outcome # "pending"
    /\ CallbacksAtRest
    /\ sac.n < MaxScans
    /\ sac' = [pc |-> "permission", outcome |-> "pending", result |-> "",
               timer |-> FALSE, n |-> sac.n + 1]
    /\ found' = [d \in ScanPeers |-> "none"]
    /\ UNCHANGED <<scanSubscription, conns, currentDevice>>

\* await requestBlePermissions() settles: reject, or
\* await isBluetoothEnabled()
ScanPermission(hasPermission) ==
    /\ sac.pc = "permission"
    /\ sac' = IF hasPermission
              THEN [sac EXCEPT !.pc = "bluetooth"]
              ELSE [Settle(sac, "rejected", "") EXCEPT !.pc = "end"]
    /\ UNCHANGED <<scanSubscription, found, conns, currentDevice>>

\* await isBluetoothEnabled() settles: reject, or stopActiveScan, the
\* SCAN_TIMEOUT timer is set and startDeviceScan is called
ScanBluetooth(btEnabled) ==
    /\ sac.pc = "bluetooth"
    /\ IF btEnabled
       THEN /\ sac' = [sac EXCEPT !.pc = "scan", !.timer = TRUE]
            /\ scanSubscription' = TRUE
       ELSE /\ sac' = [Settle(sac, "rejected", "") EXCEPT !.pc = "end"]
            /\ UNCHANGED scanSubscription
    /\ UNCHANGED <<found, conns, currentDevice>>

\* the SCAN_TIMEOUT timer fires: stopActiveScan and reject
ScanTimeout ==
    /\ sac.timer
    /\ sac' = [Settle(sac, "rejected", "") EXCEPT !.timer = FALSE]
    /\ scanSubscription' = FALSE
    /\ UNCHANGED <<found, conns, currentDevice>>

\* the scan callback is invoked with an error: clearTimeout, stopActiveScan
\* and reject
ScanError ==
    /\ sac.pc = "scan"
    /\ scanSubscription
    /\ sac' = [Settle(sac, "rejected", "") EXCEPT !.timer = FALSE]
    /\ scanSubscription' = FALSE
    /\ UNCHANGED <<found, conns, currentDevice>>

\* the running scan reports peer d, once (allowDuplicates: false): the
\* callback for d is queued
DeviceFound(d) ==
    /\ sac.pc = "scan"
    /\ scanSubscription
    /\ found[d] = "none"
    /\ found' = [found EXCEPT ![d] = "queued"]
    /\ UNCHANGED <<sac, scanSubscription, conns, currentDevice>>

\* the scan callback is invoked with peer d: stopActiveScan, clearTimeout,
\* await device.connect({timeout: CONNECTION_TIMEOUT})
ScanCallback(d) ==
    /\ found[d] = "queued"
    /\ scanSubscription' = FALSE
    /\ sac' = [sac EXCEPT !.timer = FALSE]
    /\ found' = [found EXCEPT ![d] = "connect"]
    /\ UNCHANGED <<conns, currentDevice>>

\* await device.connect() settles, at the latest on its timeout: await
\* discoverAllServicesAndCharacteristics(), or the catch block rejects
Connect(d, ok) ==
    /\ found[d] = "connect"
    /\ IF ok
       THEN /\ conns' = conns \cup {d}
            /\ found' = [found EXCEPT ![d] = "discover"]
            /\ UNCHANGED sac
       ELSE /\ sac' = Settle(sac, "rejected", "")
            /\ found' = [found EXCEPT ![d] = "failed"]
            /\ UNCHANGED conns
    /\ UNCHANGED <<scanSubscription, currentDevice>>

\* await discoverAllServicesAndCharacteristics() settles: on Android await
\* requestMTU(517), elsewhere currentDevice is set and the promise resolved;
\* or the catch block rejects
Discover(d, ok) ==
    /\ found[d] = "discover"
    /\ IF ok
       THEN IF peer.os = "android"
            THEN /\ found' = [found EXCEPT ![d] = "mtu"]
                 /\ UNCHANGED <<sac, currentDevice>>
            ELSE /\ found' = [found EXCEPT ![d] = "done"]
                 /\ currentDevice' = d
                 /\ sac' = Settle(sac, "resolved", d)
       ELSE /\ sac' = Settle(sac, "rejected", "")
            /\ found' = [found EXCEPT ![d] = "failed"]
            /\ UNCHANGED currentDevice
    /\ UNCHANGED <<scanSubscription, conns>>

\* await requestMTU(517) settles, a failure is caught and logged:
\* currentDevice is set and the promise resolved
RequestMtu(d) ==
    /\ found[d] = "mtu"
    /\ found' = [found EXCEPT ![d] = "done"]
    /\ currentDevice' = d
    /\ sac' = Settle(sac, "resolved", d)
    /\ UNCHANGED <<scanSubscription, conns>>

\* disconnect(): with a currentDevice, await cancelConnection() settles: the
\* connection is closed, currentDevice nulled, the scan stopped and true
\* returned; or it throws and the catch block returns false. Without a
\* currentDevice the scan is stopped.
Disconnect(ok) ==
    /\ IF currentDevice = ""
       THEN /\ scanSubscription' = FALSE
            /\ UNCHANGED <<conns, currentDevice>>
       ELSE IF ok
            THEN /\ conns' = conns \ {currentDevice}
                 /\ currentDevice' = ""
                 /\ scanSubscription' = FALSE
            ELSE UNCHANGED <<scanSubscription, conns, currentDevice>>
    /\ UNCHANGED <<sac, found>>

\* isConnected(): false without a currentDevice, else
\* currentDevice.isConnected()
IsConnected == currentDevice # "" /\ currentDevice \in conns

InitScan ==
    /\ sac = IdleConnect
    /\ scanSubscription = FALSE
    /\ found = [d \in ScanPeers |-> "none"]
    /\ conns = {}
    /\ currentDevice = ""

\* ------------------------- the Receive screen, the session manager and the
\* ------------------------- native peripheral (TokpayBlePeripheralModule)
Screens == {"a1", "a2"}
NoScreen == [mounted |-> "", isListening |-> FALSE,
             tokenListenerStarted |-> FALSE]
IdleStop == [pc |-> "idle", before |-> {}]
IdleNative == [isAdvertising |-> FALSE, gattServer |-> 0,
               connectedDevice |-> "", startAdvertisingPromise |-> "",
               open |-> {}, opened |-> 0, added |-> 0, starting |-> 0]

\* the screens whose startAdvertisingFlow has called startAdvertising
Called == {a \in Screens : adv[a] \notin {"idle", "permission", "denied"}}

\* setIsListening(true) of screen a's flow: state of the mounted screen only
SetIsListening(a) ==
    IF screen.mounted = a THEN [screen EXCEPT !.isListening = TRUE] ELSE screen

\* promise.resolve / promise.reject of the stored startAdvertisingPromise
SettleStored(outcome) ==
    IF native.startAdvertisingPromise = ""
    THEN adv
    ELSE [adv EXCEPT ![native.startAdvertisingPromise] = outcome]

\* the screen mounts: initializeReceiveFlow calls startAdvertisingFlow, which
\* awaits requestBlePermissions()
Mount(a) ==
    /\ screen.mounted = ""
    /\ adv[a] = "idle"
    /\ a = "a1" \/ adv["a1"] # "idle"
    /\ screen' = [NoScreen EXCEPT !.mounted = a]
    /\ adv' = [adv EXCEPT ![a] = "permission"]
    /\ UNCHANGED <<sessionState, stop, native, emitted, acks>>

\* await requestBlePermissions() settles: throw, or startAdvertising() is
\* called: it returns at once when the session is ADVERTISING, else awaits
\* manager.state()
AdvStart(a, hasPermission) ==
    /\ adv[a] = "permission"
    /\ IF ~hasPermission
       THEN /\ adv' = [adv EXCEPT ![a] = "denied"]
            /\ UNCHANGED screen
       ELSE IF sessionState = "ADVERTISING"
            THEN /\ adv' = [adv EXCEPT ![a] = "done"]
                 /\ screen' = SetIsListening(a)
            ELSE /\ adv' = [adv EXCEPT ![a] = "state"]
                 /\ UNCHANGED screen
    /\ UNCHANGED <<sessionState, stop, native, emitted, acks>>

\* the native startAdvertising(uuid, promise): rejected with Bluetooth off,
\* resolved when already advertising, else the promise is stored and
\* setupGattServer opens a GATT server and adds the service to it
NativeStartAdvertising(a, enabled, added) ==
    IF ~enabled
    THEN /\ adv' = [adv EXCEPT ![a] = "rejected"]
         /\ UNCHANGED native
    ELSE IF native.isAdvertising
         THEN /\ adv' = [adv EXCEPT ![a] = "resolved"]
              /\ UNCHANGED native
         ELSE /\ native' = [native EXCEPT
                    !.startAdvertisingPromise = IF added THEN a ELSE "",
                    !.gattServer = native.opened + 1,
                    !.open = @ \cup {native.opened + 1},
                    !.opened = @ + 1,
                    !.added = IF added THEN @ + 1 ELSE @]
              /\ adv' = [adv EXCEPT ![a] = IF added THEN "peripheral"
                                                     ELSE "rejected"]

\* await manager.state() settles: not PoweredOn throws and the catch block
\* sets IDLE; else await startPeripheral(), the native startAdvertising
AdvState(a, poweredOn, added) ==
    /\ adv[a] = "state"
    /\ IF poweredOn
       THEN /\ NativeStartAdvertising(a, TRUE, added)
            /\ UNCHANGED sessionState
       ELSE /\ sessionState' = "IDLE"
            /\ adv' = [adv EXCEPT ![a] = "failed"]
            /\ UNCHANGED native
    /\ UNCHANGED <<stop, screen, emitted, acks>>

\* gattServerCallback.onServiceAdded: advertiser.startAdvertising is called,
\* or the stored promise is rejected
OnServiceAdded(success) ==
    /\ native.added > 0
    /\ IF success
       THEN /\ native' = [native EXCEPT !.added = @ - 1, !.starting = @ + 1]
            /\ UNCHANGED adv
       ELSE /\ native' = [native EXCEPT !.added = @ - 1,
                                        !.startAdvertisingPromise = ""]
            /\ adv' = SettleStored("rejected")
    /\ UNCHANGED <<sessionState, stop, screen, emitted, acks>>

\* advertiseCallback.onStartSuccess
OnStartSuccess ==
    /\ native.starting > 0
    /\ native' = [native EXCEPT !.starting = @ - 1, !.isAdvertising = TRUE,
                                !.startAdvertisingPromise = ""]
    /\ adv' = SettleStored("resolved")
    /\ UNCHANGED <<sessionState, stop, screen, emitted, acks>>

\* advertiseCallback.onStartFailure
OnStartFailure ==
    /\ native.starting > 0
    /\ native' = [native EXCEPT !.starting = @ - 1, !.isAdvertising = FALSE,
                                !.startAdvertisingPromise = ""]
    /\ adv' = SettleStored("rejected")
    /\ UNCHANGED <<sessionState, stop, screen, emitted, acks>>

\* await startPeripheral() settles: the session is ADVERTISING and the flow
\* sets isListening; or the catch block sets IDLE and the flow throws
AdvReturn(a) ==
    /\ adv[a] \in {"resolved", "rejected"}
    /\ IF adv[a] = "resolved"
       THEN /\ sessionState' = "ADVERTISING"
            /\ adv' = [adv EXCEPT ![a] = "done"]
            /\ screen' = SetIsListening(a)
       ELSE /\ sessionState' = "IDLE"
            /\ adv' = [adv EXCEPT ![a] = "failed"]
            /\ UNCHANGED screen
    /\ UNCHANGED <<stop, native, emitted, acks>>

\* the native stopAdvertising(promise): stopAdvertisingInternal and
\* closeGattServer
NativeStopAdvertising ==
    [native EXCEPT !.isAdvertising = FALSE, !.gattServer = 0,
                   !.open = @ \ {native.gattServer}, !.connectedDevice = ""]

\* the screen unmounts: cleanupBle calls stopAdvertising(), which returns at
\* once when the session is IDLE, else awaits stopPeripheral(), the native
\* stopAdvertising
Unmount(a) ==
    /\ screen.mounted = a
    /\ stop[a].pc = "idle"
    /\ screen' = NoScreen
    /\ IF sessionState = "IDLE"
       THEN /\ stop' = [stop EXCEPT ![a] = [pc |-> "disconnect",
                                            before |-> Called]]
            /\ UNCHANGED native
       ELSE /\ stop' = [stop EXCEPT ![a].pc = "stopping"]
            /\ native' = NativeStopAdvertising
    /\ UNCHANGED <<sessionState, adv, emitted, acks>>

\* await stopPeripheral() settles: the session is IDLE, stopAdvertising
\* returns, cleanupBle awaits disconnect()
StopReturn(a) ==
    /\ stop[a].pc = "stopping"
    /\ sessionState' = "IDLE"
    /\ stop' = [stop EXCEPT ![a] = [pc |-> "disconnect", before |-> Called]]
    /\ UNCHANGED <<adv, native, screen, emitted, acks>>

\* await stopPeripheral() rejects in a stopAdvertising whose catch block
\* leaves the session state as it is
StopFailedKeepState(a) ==
    /\ stop[a].pc = "stopping"
    /\ stop' = [stop EXCEPT ![a] = [pc |-> "disconnect", before |-> Called]]
    /\ UNCHANGED <<sessionState, adv, native, screen, emitted, acks>>

\* await stopPeripheral() rejects: the catch block of stopAdvertising logs the
\* error and sets IDLE, stopAdvertising returns, cleanupBle awaits disconnect()
StopFailed(a) ==
    /\ stop[a].pc = "stopping"
    /\ sessionState' = "IDLE"
    /\ stop' = [stop EXCEPT ![a] = [pc |-> "disconnect", before |-> Called]]
    /\ UNCHANGED <<adv, native, screen, emitted, acks>>

\* markConnected() that sets CONNECTED whatever the session state is
markConnectedAnyState ==
    /\ sessionState' = "CONNECTED"
    /\ UNCHANGED <<adv, stop, native, screen, emitted, acks>>

\* markConnected(): CONNECTED when the session is ADVERTISING, else nothing
markConnected ==
    /\ sessionState' = IF sessionState = "ADVERTISING" THEN "CONNECTED"
                       ELSE sessionState
    /\ UNCHANGED <<adv, stop, native, screen, emitted, acks>>

\* resetSession()
resetSession ==
    /\ sessionState' = "IDLE"
    /\ UNCHANGED <<adv, stop, native, screen, emitted, acks>>

\* cleanupBle: await disconnect() settles
StopDisconnect(a, ok) ==
    /\ stop[a].pc = "disconnect"
    /\ Disconnect(ok)
    /\ stop' = [stop EXCEPT ![a].pc = "done"]
    /\ UNCHANGED <<sessionState, adv, native, screen, emitted, acks>>

\* gattServerCallback.onConnectionStateChange: a central connects to an open
\* GATT server of the advertising device, or the connected one disconnects
OnConnectionStateChange(d, connected) ==
    /\ IF connected
       THEN native.isAdvertising /\ native.open # {} /\ native.connectedDevice = ""
       ELSE native.connectedDevice = d
    /\ native' = [native EXCEPT !.connectedDevice = IF connected THEN d ELSE ""]
    /\ UNCHANGED <<sessionState, adv, stop, screen, emitted, acks>>

\* gattServerCallback.onCharacteristicWriteRequest for chunk c written by the
\* connected central: the 'onTokenReceived' event is emitted. The only code
\* that subscribes to the event is blePeripheral.onDataReceived, which no
\* module calls: the event reaches no listener.
OnCharacteristicWriteRequest(c) ==
    /\ c \in air
    /\ native.connectedDevice # ""
    /\ air' = air \ {c}
    /\ emitted' = emitted + 1
    /\ UNCHANGED <<peer, xfer, receivedChunks, expectedChunks, calls, delivered>>
    /\ UNCHANGED <<sessionState, adv, stop, native, screen, acks>>

\* the listener effect's 750 ms interval fires on the listening screen:
\* await isConnected() settles; connected, the interval is cleared and
\* receiveToken(handleTokenReceived) called: it monitors the characteristic
\* of currentDevice, the peer this device connected to as a central; not
\* connected, nothing changes and the interval fires again
ListenerPoll ==
    /\ screen.mounted # ""
    /\ screen.isListening
    /\ ~screen.tokenListenerStarted
    /\ screen' = IF IsConnected
                 THEN [screen EXCEPT !.tokenListenerStarted = TRUE]
                 ELSE screen
    /\ UNCHANGED <<sessionState, adv, stop, native, emitted, acks>>

InitReceive ==
    /\ sessionState = "IDLE"
    /\ adv = [a \in Screens |-> "idle"]
    /\ stop = [a \in Screens |-> IdleStop]
    /\ native = IdleNative
    /\ screen = NoScreen
    /\ emitted = 0
    /\ acks = {}

\* ------------------- a token through serializeToken and deserializeToken
NoTrip == [kind |-> "none", token |-> None, parsed |-> None, accepted |-> FALSE]

\* deserializeToken(str): the parsed object, or it throws
Parsed(str) == IF Deserializes(str) THEN deserializeToken(str) ELSE None

\* a caller serializes the i-th issued token, deserializes the string and
\* verifies the result, the clock reading what it read at issue
RoundTrip(i) ==
    /\ i \in 1..Len(issued)
    /\ LET token == issued[i].token
           parsed == Parsed(serializeToken(token))
       IN trip' = [kind |-> "roundtrip", token |-> token, parsed |-> parsed,
                   accepted |-> VerifyToken(parsed, token.timestamp)]

\* the values a holder of a token may write over a signed field
SignedFields == {"payer_pubkey", "amount", "payee_device_id", "timestamp", "counter"}
ForgedValues(f) ==
    IF f = "payer_pubkey" THEN {PayerKey, OtherKey} ELSE FieldValues(f)

\* a holder of the i-th issued token replaces the value of signed field f
\* by another, keeps the signature, and verifies the result
Tamper(i, f, v) ==
    /\ i \in 1..Len(issued)
    /\ f \in SignedFields
    /\ v \in ForgedValues(f) \ {issued[i].token[f]}
    /\ LET token == issued[i].token
           forged == [token EXCEPT ![f] = v]
       IN trip' = [kind |-> f, token |-> token, parsed |-> forged,
                   accepted |-> VerifyToken(forged, now)]

\* --------------------------- a received token through processReceivedToken
\* the check of verifyToken that turns the token down at Date.now() = time,
\* in the order of its console.error lines; "" when it resolves true
RejectReason(token, time) ==
    IF ~(RequiredFields \subseteq DOMAIN token) THEN "missing field"
    ELSE IF token.amount <= 0 THEN "amount must be positive"
    ELSE IF time - token.timestamp > MAX_TOKEN_AGE THEN "expired"
    ELSE IF ~VerifyDetached(TokenString(token), token.signature, token.payer_pubkey)
         THEN "signature verification failed"
    ELSE ""

\* processReceivedToken(token): what it returns to applyReceivedPaymentToken
processReceivedToken(token, time) ==
    IF VerifyToken(token, time)
    THEN [success |-> TRUE, message |-> <<"Received", token.amount>>,
          amount |-> token.amount]
    ELSE [success |-> FALSE, message |-> "Invalid token signature or expired token",
          amount |-> 0]

\* applyReceivedPaymentToken(token) when the token is turned down: it hands
\* on the message of processReceivedToken
ApplyFailure(result) ==
    [success |-> FALSE, message |-> result.message, amount |-> 0, newBalance |-> 0]

\* the receiver's clock readings and the issue times of the presented tokens,
\* around the oldest accepted age
ClockReadings == {MAX_TOKEN_AGE + 1, MAX_TOKEN_AGE + 2, MAX_TOKEN_AGE + 3}
StampTimes == {1, 2, MAX_TOKEN_AGE + 2, MAX_TOKEN_AGE + 3}

\* the tokens a sender presents: signed by generateToken's steps, signed by
\* another key, or with one required field left out
SignedTokens ==
    {BuildToken(a, "R1", 1, SenderDevice, PayerKey, ts) : a \in Amounts, ts \in StampTimes}
MisSignedTokens ==
    {[t EXCEPT !.signature = SignDetached(TokenString(t), OtherKey)] : t \in SignedTokens}
PresentedTokens ==
    SignedTokens \cup MisSignedTokens
      \cup {Without(t, f) : t \in SignedTokens \cup MisSignedTokens, f \in RequiredFields}

\* the receiver verifies a presented token at its clock reading
Verify(token) ==
    /\ token \in PresentedTokens
    /\ LET result == processReceivedToken(token, now)
       IN trip' = [kind |-> "verify", token |-> token, parsed |-> token,
                   accepted |-> result.success, at |-> now,
                   result |-> IF result.success THEN result ELSE ApplyFailure(result)]

\* ------------------------------ sendToken's fragment sizing on any string
\* a serialized token of len characters: a base64 string, ASCII only
MaxTokenChars == 56
MaxMtu == 30
TokenChars(len) == [i \in 1..len |-> "A"]
\* the connected devices: no usable mtu, or one from 20 to MaxMtu
SizingPeers == [os : Platforms, mtu : {0} \cup 20..MaxMtu]

\* sendToken's sizing with fragments as long as the write size at the start
FragmentStringNoHeaderRoom(tokenString, device) ==
    LET maxWriteBytes == getMaxWriteBytes(device)
    IN FitFragments(tokenString, maxWriteBytes, Max(1, maxWriteBytes))

\* sendToken from getMaxWriteBytes to the end of its while (true) loop
FragmentString(tokenString, device) ==
    LET maxWriteBytes == getMaxWriteBytes(device)
    IN FitFragments(tokenString, maxWriteBytes, Max(1, maxWriteBytes - 15))

\* the write loop of sendToken: the chunks it writes before one is longer than
\* the write size, where it throws
WrittenChunks(fragments, maxWriteBytes) ==
    LET big == {i \in 0..(Len(fragments) - 1) :
                  encodeUtf8ByteLength(ChunkData(fragments, i)) > maxWriteBytes}
        count == IF big = {} THEN Len(fragments)
                 ELSE CHOOSE i \in big : \A j \in big : i <= j
    IN [i \in 1..count |-> ChunkData(fragments, i - 1)]

\* sendToken sizes and writes a serialized token of len characters for device
SizeAndWrite(len, device) ==
    /\ len \in 1..MaxTokenChars
    /\ device \in SizingPeers
    /\ LET fragments == FragmentString(TokenChars(len), device)
           maxWriteBytes == getMaxWriteBytes(device)
           chunks == WrittenChunks(fragments, maxWriteBytes)
       IN trip' = [kind |-> "fragment", token |-> None, parsed |-> None,
                   accepted |-> Len(chunks) = Len(fragments),
                   str |-> TokenChars(len), maxWriteBytes |-> maxWriteBytes,
                   fragments |-> fragments, chunks |-> chunks]

\* ------------------------------------------------- getDeviceIdentity
MaxIdCalls == 3
IdCalls == {"i1", "i2"}
\* DeviceInfo.getDeviceName() of the device
DeviceName == "S-phone"
\* the n-th value uuidv4() returns
Uuid(n) == "u" \o ToString(n)
IdleId == [pc |-> "idle", storedDeviceId |-> "", deviceId |-> "", result |-> ""]
\* AsyncStorage holds no identity, no call was made
NoIdentity == [deviceId |-> "", deviceName |-> "", uuids |-> 0, started |-> 0,
               call |-> [c \in IdCalls |-> IdleId], returned |-> {}]

\* getDeviceIdentity() is called: await AsyncStorage.getItem(DEVICE_ID_KEY)
IdStart(c) ==
    /\ identity.call[c].pc = "idle"
    /\ identity.started < MaxIdCalls
    /\ identity' = [identity EXCEPT !.started = @ + 1,
                                    !.call[c] = [IdleId EXCEPT !.pc = "getId"]]

\* the read of the id settles: await AsyncStorage.getItem(DEVICE_NAME_KEY)
IdGetId(c) ==
    /\ identity.call[c].pc = "getId"
    /\ identity' = [identity EXCEPT !.call[c].pc = "getName",
                                    !.call[c].storedDeviceId = identity.deviceId]

\* the read of the name settles: with both stored the stored identity is
\* returned; else generateDeviceIdentity draws uuidv4() and awaits
\* DeviceInfo.getDeviceName()
IdGetName(c) ==
    /\ identity.call[c].pc = "getName"
    /\ IF identity.call[c].storedDeviceId # "" /\ identity.deviceName # ""
       THEN identity' = [identity EXCEPT
                !.call[c].pc = "done",
                !.call[c].result = identity.call[c].storedDeviceId]
       ELSE identity' = [identity EXCEPT
                !.uuids = @ + 1,
                !.call[c].pc = "getDeviceName",
                !.call[c].deviceId = Uuid(identity.uuids + 1)]

\* getDeviceName() settles: await AsyncStorage.setItem(DEVICE_ID_KEY, deviceId)
IdDeviceName(c) ==
    /\ identity.call[c].pc = "getDeviceName"
    /\ identity' = [identity EXCEPT !.call[c].pc = "setId"]

\* the write of the id settles: await AsyncStorage.setItem(DEVICE_NAME_KEY)
IdSetId(c) ==
    /\ identity.call[c].pc = "setId"
    /\ identity' = [identity EXCEPT !.deviceId = identity.call[c].deviceId,
                                    !.call[c].pc = "setName"]

\* the write of the name settles: {deviceId, deviceName} is returned
IdSetName(c) ==
    /\ identity.call[c].pc = "setName"
    /\ identity' = [identity EXCEPT !.deviceName = DeviceName,
                                    !.call[c].pc = "done",
                                    !.call[c].result = identity.call[c].deviceId]

\* an await of the call rejects: the catch block logs and rethrows
IdFail(c) ==
    /\ identity.call[c].pc \in {"getId", "getName", "getDeviceName", "setId", "setName"}
    /\ identity' = [identity EXCEPT !.call[c] = [IdleId EXCEPT !.pc = "failed"]]

\* the caller takes the identity (or the error)
IdReturn(c) ==
    /\ identity.call[c].pc \in {"done", "failed"}
    /\ identity' = [identity EXCEPT
            !.call[c] = IdleId,
            !.returned = IF identity.call[c].pc = "done"
                         THEN @ \cup {identity.call[c].result} ELSE @]

\* resetDeviceIdentity(), no getDeviceIdentity call being in flight:
\* multiRemove clears both keys
resetDeviceIdentity ==
    /\ \A c \in IdCalls : identity.call[c].pc = "idle"
    /\ identity.deviceId # "" \/ identity.deviceName # ""
    /\ identity' = [identity EXCEPT !.deviceId = "", !.deviceName = "",
                                    !.returned = {}]

InitCodec == trip = NoTrip /\ identity = NoIdentity

InitBle == InitScan /\ InitReceive /\ InitCodec

\* ---------------------------------------------------------- specifications
\* the counter does not depend on the amount, the payee or the clock: these
\* runs draw one accepted and one rejected value of each and leave the clock.
GenStep ==
    \/ \E g \in GenIds, a \in {0, 1}, p \in {"", "R1"} : GenStart(g, a, p)
    \/ \E g \in GenIds : GenIdentity(g)
    \/ \E g \in GenIds : GenKeypair(g)
    \/ \E g \in GenIds : GenReturn(g)

InitAll == InitTok /\ InitWallet /\ InitPayVars /\ InitQr /\ InitChunk /\ InitBle

\* generateToken calls only, any number in flight
InitIssue == InitAll
NextIssue == GenStep /\ UNCHANGED <<bleVars, now, walletVars, payVars, qrVars, chunkVars>>
SpecIssue == InitIssue /\ [][NextIssue]_vars

\* generateToken, resetCounter and app restarts on one device
InitToken == InitAll
NextToken ==
    \/ GenStep /\ UNCHANGED <<bleVars, now, walletVars, payVars, qrVars, chunkVars>>
    \/ ResetCounter /\ UNCHANGED <<bleVars, now, walletVars, payVars, qrVars, chunkVars>>
    \/ Restart /\ UNCHANGED <<bleVars, now, walletVars, payVars, qrVars, chunkVars>>
SpecToken == InitToken /\ [][NextToken]_vars

\* the wallet screen's addMoney / deductMoney calls on one device's store
WalletStep(w) ==
    \/ WSelect(w) \/ WUpdate(w) \/ WInsert(w) \/ WReturn(w)

InitWalletOnly == InitAll
NextWallet ==
    \/ \E w \in ScreenCalls, t \in {"credit", "debit"}, a \in Amounts :
          WStart(w, SenderDevice, t, a) /\ UNCHANGED <<bleVars, now, tokVars, payVars, qrVars, chunkVars>>
    \/ \E w \in ScreenCalls : WalletStep(w) /\ UNCHANGED <<bleVars, now, tokVars, payVars, qrVars, chunkVars>>
    \/ AppStop(SenderDevice) /\ UNCHANGED <<bleVars, now, tokVars, payVars, qrVars, chunkVars>>
SpecWallet == InitWalletOnly /\ [][NextWallet]_vars

\* One paying device and two receiving devices, of which R1 is the payee the
\* sender names and R2 another device on the Receive screen; the sender's
\* wallet holds one earlier top-up of InitialFunds. The run is shorter than
\* MAX_TOKEN_AGE: the clock stays.
InitPay ==
    /\ InitTok
    /\ InitPayVars
    /\ InitQr
    /\ InitChunk
    /\ InitBle
    /\ balance = [d \in Devices |-> IF d = SenderDevice THEN InitialFunds ELSE 0]
    /\ txlog = [d \in Devices |->
                  IF d = SenderDevice
                  THEN <<[type |-> "credit", amount |-> InitialFunds]>>
                  ELSE <<>>]
    /\ wcall = [w \in WIds |-> IdleCall]
    /\ wops = [d \in Devices |-> 0]

NextPay ==
    \/ \E a \in Amounts, p \in {"", "R1"} : PayStart(a, p) /\ UNCHANGED <<bleVars, now, qrVars, chunkVars, qrVars, chunkVars>>
    \/ PayPermission /\ UNCHANGED <<bleVars, now, qrVars, chunkVars, qrVars, chunkVars>>
    \/ (GenIdentity(PayGen) \/ GenKeypair(PayGen))
          /\ UNCHANGED <<bleVars, now, walletVars, payVars, qrVars, chunkVars>>
    \/ PayToken /\ UNCHANGED <<bleVars, now, qrVars, chunkVars, qrVars, chunkVars>>
    \/ PayScan /\ UNCHANGED <<bleVars, now, qrVars, chunkVars, qrVars, chunkVars>>
    \/ PaySend /\ UNCHANGED <<bleVars, now, qrVars, chunkVars, qrVars, chunkVars>>
    \/ \E w \in {PayCall} \cup Receivers :
          (WSelect(w) \/ WUpdate(w) \/ WInsert(w))
            /\ UNCHANGED <<bleVars, now, tokVars, payVars, qrVars, chunkVars>>
    \/ PayDeduct /\ UNCHANGED <<bleVars, now, qrVars, chunkVars, qrVars, chunkVars>>
    \/ PayDisconnect /\ UNCHANGED <<bleVars, now, qrVars, chunkVars, qrVars, chunkVars>>
    \/ PayCleanup /\ UNCHANGED <<bleVars, now, qrVars, chunkVars, qrVars, chunkVars>>
    \/ PayReturn /\ UNCHANGED <<bleVars, now, qrVars, chunkVars, qrVars, chunkVars>>
    \/ PayRestart /\ UNCHANGED <<bleVars, now, qrVars, chunkVars, qrVars, chunkVars>>
    \/ \E r \in Receivers : \E t \in heard[r] \cup {d.token : d \in wire} :
          RxReceive(r, t) /\ UNCHANGED <<bleVars, now, qrVars, chunkVars, qrVars, chunkVars>>
    \/ \E r \in Receivers : RxVerify(r) /\ UNCHANGED <<bleVars, now, qrVars, chunkVars, qrVars, chunkVars>>
    \/ \E r \in Receivers : RxCredit(r) /\ UNCHANGED <<bleVars, now, qrVars, chunkVars, qrVars, chunkVars>>
SpecPay == InitPay /\ [][NextPay]_vars

\* One device on the Receive screen, one payer scanning what it is shown,
\* and the clock.
InitQR == InitAll
NextQR ==
    \/ \E d \in {"", QrDevice}, n \in {"", QrDeviceName} :
          generateReceiveQR(d, n)
            /\ UNCHANGED <<bleVars, now, tokVars, walletVars, payVars, chunkVars>>
    \/ resetSessionEphemeralKey
          /\ UNCHANGED <<bleVars, now, tokVars, walletVars, payVars, chunkVars>>
    \/ \E q \in QrInputs :
          onCodeScanned(q)
            /\ UNCHANGED <<bleVars, now, tokVars, walletVars, payVars, chunkVars>>
    \/ AlertOk /\ UNCHANGED <<bleVars, now, tokVars, walletVars, payVars, chunkVars>>
    \/ \E sent \in BOOLEAN :
          handleConfirmSend(sent)
            /\ UNCHANGED <<bleVars, now, tokVars, walletVars, payVars, chunkVars>>
    \/ GoBack /\ UNCHANGED <<bleVars, now, tokVars, walletVars, payVars, chunkVars>>
    \/ Tick /\ UNCHANGED <<bleVars, tokVars, walletVars, payVars, qrVars, chunkVars>>
SpecQR == InitQR /\ [][NextQR]_vars

\* a payer whose clock reads any tick scans payloads that carry every
\* required field
InitGrant ==
    /\ now \in 1..MaxNow
    /\ tokenCounter = 0
    /\ gen = [g \in GenIds |-> IdleGen]
    /\ issued = <<>>
    /\ InitWallet /\ InitPayVars /\ InitQr /\ InitChunk /\ InitBle
NextGrant ==
    \/ \E q \in CraftedGrants :
          onCodeScanned(q)
            /\ UNCHANGED <<bleVars, now, tokVars, walletVars, payVars, chunkVars>>
    \/ AlertOk /\ UNCHANGED <<bleVars, now, tokVars, walletVars, payVars, chunkVars>>
    \/ GoBack /\ UNCHANGED <<bleVars, now, tokVars, walletVars, payVars, chunkVars>>
SpecGrant == InitGrant /\ [][NextGrant]_vars

\* One sendToken call to a peer of any platform and mtu, and a fresh
\* listener to which the link notifies each written chunk once, in any order.
InitShuffle == InitTok /\ InitWallet /\ InitPayVars /\ InitQr /\ InitBle
                 /\ peer \in Peers /\ NoTransfer
NextShuffle ==
    \/ \E t \in ChunkTokens :
          SendStart(1, t)
            /\ UNCHANGED <<bleVars, now, tokVars, walletVars, payVars, qrVars>>
    \/ SendConnected(1)
          /\ UNCHANGED <<bleVars, now, tokVars, walletVars, payVars, qrVars>>
    \/ SendNext(1)
          /\ UNCHANGED <<bleVars, now, tokVars, walletVars, payVars, qrVars>>
    \/ SendFail(1)
          /\ UNCHANGED <<bleVars, now, tokVars, walletVars, payVars, qrVars>>
    \/ \E c \in air :
          Notify(c, FALSE)
            /\ UNCHANGED <<bleVars, now, tokVars, walletVars, payVars, qrVars>>
SpecShuffle == InitShuffle /\ [][NextShuffle]_vars

\* sendToken calls one after another to one listener over a link that may
\* notify a written chunk any number of times or never, a peer that may
\* write chunks of its own making, and monitor errors.
\* Each call sends a token of its own: the call's number is its counter.
FaultyToken(x) == BuildToken(1, "R1", x, SenderDevice, PayerKey, 1)
InitFaulty == InitTok /\ InitWallet /\ InitPayVars /\ InitQr /\ InitBle
                /\ peer \in [os : {"android"}, mtu : {24, 26}] /\ NoTransfer
NextFaulty ==
    \/ \E x \in XferIds :
          SendStart(x, FaultyToken(x))
            /\ UNCHANGED <<bleVars, now, tokVars, walletVars, payVars, qrVars>>
    \/ \E x \in XferIds :
          SendConnected(x)
            /\ UNCHANGED <<bleVars, now, tokVars, walletVars, payVars, qrVars>>
    \/ \E x \in XferIds :
          SendNext(x)
            /\ UNCHANGED <<bleVars, now, tokVars, walletVars, payVars, qrVars>>
    \/ \E x \in XferIds :
          SendFail(x)
            /\ UNCHANGED <<bleVars, now, tokVars, walletVars, payVars, qrVars>>
    \/ \E c \in air :
          Notify(c, TRUE)
            /\ UNCHANGED <<bleVars, now, tokVars, walletVars, payVars, qrVars>>
    \/ \E c \in air :
          \E h \in {<<c.total, c.total>>, <<c.index, c.total + 1>>} :
              NotifyForged(c, h[1], h[2])
            /\ UNCHANGED <<bleVars, now, tokVars, walletVars, payVars, qrVars>>
    \/ MonitorError
          /\ UNCHANGED <<bleVars, now, tokVars, walletVars, payVars, qrVars>>
SpecFaulty == InitFaulty /\ [][NextFaulty]_vars

\* One device that opens and leaves the Receive screen, twice at most, its
\* native peripheral, and one sender that connects to it and writes the
\* chunks of one token to its characteristic.
\* Fair: the device's own continuations, the callbacks Android owes it and
\* the connected sender's writes; not the user's steps.
ReceiveFrame == UNCHANGED <<now, tokVars, walletVars, payVars, qrVars, chunkVars, scanVars, codecVars>>
SenderFrame == UNCHANGED <<now, tokVars, walletVars, payVars, qrVars, bleVars>>
ReceiverProgress ==
    \/ \E a \in Screens, added \in BOOLEAN : AdvState(a, TRUE, added) /\ ReceiveFrame
    \/ \E success \in BOOLEAN : OnServiceAdded(success) /\ ReceiveFrame
    \/ OnStartSuccess /\ ReceiveFrame
    \/ \E a \in Screens : AdvReturn(a) /\ ReceiveFrame
    \/ \E a \in Screens : StopReturn(a) /\ ReceiveFrame
    \/ \E a \in Screens, ok \in BOOLEAN :
          StopDisconnect(a, ok)
            /\ UNCHANGED <<now, tokVars, walletVars, payVars, qrVars, chunkVars, codecVars>>
    \/ \E c \in air :
          OnCharacteristicWriteRequest(c)
            /\ UNCHANGED <<now, tokVars, walletVars, payVars, qrVars, scanVars, codecVars>>
    \/ ListenerPoll /\ ReceiveFrame
    \/ SendConnected(1) /\ SenderFrame
    \/ SendNext(1) /\ SenderFrame
InitReceiveRun == InitTok /\ InitWallet /\ InitPayVars /\ InitQr /\ InitBle
                    /\ peer = [os |-> "android", mtu |-> 34] /\ NoTransfer
NextReceive ==
    \/ \E a \in Screens : Mount(a) /\ ReceiveFrame
    \/ \E a \in Screens, hasPermission \in BOOLEAN :
          AdvStart(a, hasPermission) /\ ReceiveFrame
    \/ \E a \in Screens : AdvState(a, FALSE, FALSE) /\ ReceiveFrame
    \/ OnStartFailure /\ ReceiveFrame
    \/ \E a \in Screens : Unmount(a) /\ ReceiveFrame
    \/ \E connected \in BOOLEAN :
          OnConnectionStateChange(SenderDevice, connected) /\ ReceiveFrame
    \/ native.connectedDevice # "" /\ SendStart(1, FaultyToken(1)) /\ SenderFrame
    \/ SendFail(1) /\ SenderFrame
    \/ ReceiverProgress
SpecReceive == InitReceiveRun /\ [][NextReceive]_vars /\ WF_vars(ReceiverProgress)

\* One device that opens and leaves the Receive screen, twice at most, its
\* native peripheral, and a caller of the session manager's markConnected and
\* resetSession.
NextSession ==
    \/ \E a \in Screens : Mount(a) /\ ReceiveFrame
    \/ \E a \in Screens, hasPermission \in BOOLEAN :
          AdvStart(a, hasPermission) /\ ReceiveFrame
    \/ \E a \in Screens, poweredOn \in BOOLEAN, added \in BOOLEAN :
          AdvState(a, poweredOn, added) /\ ReceiveFrame
    \/ \E success \in BOOLEAN : OnServiceAdded(success) /\ ReceiveFrame
    \/ OnStartSuccess /\ ReceiveFrame
    \/ OnStartFailure /\ ReceiveFrame
    \/ \E a \in Screens : AdvReturn(a) /\ ReceiveFrame
    \/ \E a \in Screens : Unmount(a) /\ ReceiveFrame
    \/ \E a \in Screens : StopReturn(a) /\ ReceiveFrame
    \/ \E a \in Screens : StopFailed(a) /\ ReceiveFrame
    \/ \E a \in Screens, ok \in BOOLEAN :
          StopDisconnect(a, ok)
            /\ UNCHANGED <<now, tokVars, walletVars, payVars, qrVars, chunkVars, codecVars>>
    \/ markConnected /\ ReceiveFrame
    \/ resetSession /\ ReceiveFrame
SpecSession == InitReceiveRun /\ [][NextSession]_vars

\* One processOfflinePayment call on the sender, step by step through
\* scanAndConnect and disconnect, with two peers advertising the service.
\* The amount is within the sender's funds or above them.
PayFrame == UNCHANGED <<now, qrVars, chunkVars, bleVars>>
ScanFrame == UNCHANGED <<now, tokVars, walletVars, payVars, qrVars, chunkVars, rcvVars, codecVars>>

\* Step 3's await scanAndConnect() settles as the call's promise did
ScanSettled ==
    /\ sac.n > 0
    /\ sac.outcome # "pending"
    /\ IF sac.outcome = "resolved"
       THEN pay'.pc = "send" /\ pay'.connected = sac.result
       ELSE pay'.pc # "send"

ScanStep ==
    \/ \E hasPermission \in BOOLEAN : ScanPermission(hasPermission) /\ ScanFrame
    \/ \E btEnabled \in BOOLEAN : ScanBluetooth(btEnabled) /\ ScanFrame
    \/ ScanTimeout /\ ScanFrame
    \/ ScanError /\ ScanFrame
    \/ \E d \in ScanPeers : DeviceFound(d) /\ ScanFrame
    \/ \E d \in ScanPeers : ScanCallback(d) /\ ScanFrame
    \/ \E d \in ScanPeers, ok \in BOOLEAN : Connect(d, ok) /\ ScanFrame
    \/ \E d \in ScanPeers, ok \in BOOLEAN : Discover(d, ok) /\ ScanFrame
    \/ \E d \in ScanPeers : RequestMtu(d) /\ ScanFrame

InitConnect == InitPay
NextConnect ==
    \/ \E a \in {1, InitialFunds + 1} :
          pay.n = 0 /\ PayStart(a, "R1") /\ PayFrame
    \/ PayPermission /\ PayFrame
    \/ (GenIdentity(PayGen) \/ GenKeypair(PayGen))
          /\ UNCHANGED <<now, walletVars, payVars, qrVars, chunkVars, bleVars>>
    \/ PayToken /\ PayFrame
    \/ pay.pc = "scan" /\ sac.n = 0 /\ ScanStart /\ ScanFrame
    \/ ScanStep
    \/ PayScan /\ ScanSettled /\ PayFrame
    \/ PaySend /\ PayFrame
    \/ (WSelect(PayCall) \/ WUpdate(PayCall) \/ WInsert(PayCall))
          /\ UNCHANGED <<now, tokVars, payVars, qrVars, chunkVars, bleVars>>
    \/ PayDeduct /\ PayFrame
    \/ \E ok \in BOOLEAN :
          PayDisconnect /\ Disconnect(ok)
            /\ UNCHANGED <<now, qrVars, chunkVars, rcvVars, codecVars>>
    \/ \E ok \in BOOLEAN :
          PayCleanup /\ Disconnect(ok)
            /\ UNCHANGED <<now, qrVars, chunkVars, rcvVars, codecVars>>
    \/ PayReturn /\ PayFrame
SpecConnect == InitConnect /\ [][NextConnect]_vars

\* scanAndConnect calls one after another on a device with two peers
\* advertising the service, and the caller's disconnect after a call
\* resolved.
\* Fair: the steps the device takes by itself or that a timer bounds: the
\* permission and Bluetooth checks, the scan timeout, a queued scan
\* callback, device.connect with its timeout. Not fair: what only the BLE
\* stack can deliver: a scan result, a scan error, the end of service
\* discovery, the answer to the MTU request.
ScanProgress ==
    \/ \E hasPermission \in BOOLEAN : ScanPermission(hasPermission) /\ ScanFrame
    \/ \E btEnabled \in BOOLEAN : ScanBluetooth(btEnabled) /\ ScanFrame
    \/ ScanTimeout /\ ScanFrame
    \/ \E d \in ScanPeers : ScanCallback(d) /\ ScanFrame
    \/ \E d \in ScanPeers, ok \in BOOLEAN : Connect(d, ok) /\ ScanFrame
InitScanRun == InitAll
NextScan ==
    \/ ScanStart /\ ScanFrame
    \/ ScanStep
    \/ \E ok \in BOOLEAN :
          sac.outcome = "resolved" /\ CallbacksAtRest /\ currentDevice # ""
            /\ Disconnect(ok) /\ ScanFrame
SpecScan == InitScanRun /\ [][NextScan]_vars /\ WF_vars(ScanProgress)

\* generateToken calls one after another with every amount and payee, the
\* clock, and callers that take an issued token through serializeToken and deserializeToken or
\* change one of its signed fields before they verify it.
CodecFrame == UNCHANGED <<now, walletVars, payVars, qrVars, chunkVars, bleVars>>
InitCodecRun == InitAll
NextCodec ==
    \/ \E a \in Amounts, p \in Payees : GenStart(PayGen, a, p) /\ CodecFrame
    \/ GenIdentity(PayGen) /\ CodecFrame
    \/ GenKeypair(PayGen) /\ CodecFrame
    \/ GenReturn(PayGen) /\ CodecFrame
    \/ Tick /\ UNCHANGED <<tokVars, walletVars, payVars, qrVars, chunkVars, bleVars>>
    \/ \E i \in 1..MaxIssued :
          RoundTrip(i)
            /\ UNCHANGED <<now, tokVars, walletVars, payVars, qrVars, chunkVars, scanVars, rcvVars, identity>>
    \/ \E i \in 1..MaxIssued, f \in SignedFields :
          \E v \in ForgedValues(f) :
              Tamper(i, f, v)
                /\ UNCHANGED <<now, tokVars, walletVars, payVars, qrVars, chunkVars, scanVars, rcvVars, identity>>
SpecCodec == InitCodecRun /\ [][NextCodec]_vars

\* a receiver whose clock reads one of ClockReadings verifies presented tokens
InitVerify ==
    /\ now \in ClockReadings
    /\ tokenCounter = 0
    /\ gen = [g \in GenIds |-> IdleGen]
    /\ issued = <<>>
    /\ InitWallet /\ InitPayVars /\ InitQr /\ InitChunk /\ InitBle
NextVerify ==
    \E token \in PresentedTokens :
        Verify(token)
          /\ UNCHANGED <<now, tokVars, walletVars, payVars, qrVars, chunkVars, scanVars, rcvVars, identity>>
SpecVerify == InitVerify /\ [][NextVerify]_vars

\* getDeviceIdentity calls, two at a time at most, and resetDeviceIdentity
\* between them
IdentityFrame == UNCHANGED <<now, tokVars, walletVars, payVars, qrVars, chunkVars, scanVars, rcvVars, trip>>
NextIdentity ==
    \/ \E c \in IdCalls : IdStart(c) /\ IdentityFrame
    \/ \E c \in IdCalls : IdGetId(c) /\ IdentityFrame
    \/ \E c \in IdCalls : IdGetName(c) /\ IdentityFrame
    \/ \E c \in IdCalls : IdDeviceName(c) /\ IdentityFrame
    \/ \E c \in IdCalls : IdSetId(c) /\ IdentityFrame
    \/ \E c \in IdCalls : IdSetName(c) /\ IdentityFrame
    \/ \E c \in IdCalls : IdFail(c) /\ IdentityFrame
    \/ \E c \in IdCalls : IdReturn(c) /\ IdentityFrame
    \/ resetDeviceIdentity /\ IdentityFrame
SpecIdentity == InitAll /\ [][NextIdentity]_vars

\* a sender sizes and writes serialized tokens of every length up to
\* MaxTokenChars for every device of SizingPeers
NextFragment ==
    \E len \in 1..MaxTokenChars, device \in SizingPeers :
        SizeAndWrite(len, device)
          /\ UNCHANGED <<now, tokVars, walletVars, payVars, qrVars, chunkVars, scanVars, rcvVars, identity>>
SpecFragment == InitAll /\ [][NextFragment]_vars

\* ------------------------------------------------------------------ claims
\* The receiver's acknowledgment of token t: handleTokenReceived reaches its
\* 'ACK sent to sender' line only after applyReceivedPaymentToken succeeded.
AckSentFor(t) == \E c \in credited : c.token = t

\* the sender's wallet has been debited for the payment in progress
PayDebited ==
    \/ wcall[PayCall].pc \in {"insert", "done"}
    \/ pay.pc = "disconnect"

\* C1: in every execution of processOfflinePayment the sender's debit happens
\* only after the receiver's acknowledgment for the transmitted token; with no
\* acknowledgment the balance is not decreased and success is not reported.
C1_DebitOnlyAfterAck ==
    (PayDebited \/ (pay.pc = "returned" /\ pay.result = "success"))
        => AckSentFor(pay.token)

\* C2: a token delivered to applyReceivedPaymentToken more than once on one
\* receiver is credited at most once.
C2_TokenCreditedAtMostOnce ==
    \A c \in credited : c.k = 1

\* C3: once a receiver has admitted a token of payer key K with counter c, any
\* other validly signed token of K with counter c is not credited there.
C3_DuplicateCounterRejected ==
    \A c1, c2 \in credited :
        (/\ c1.dev = c2.dev
         /\ c1.token.payer_pubkey = c2.token.payer_pubkey
         /\ c1.token.counter = c2.token.counter)
        => c1.token = c2.token

\* C4: a token issued for payee device id R is never credited on a device
\* whose own device id is not R.
C4_CreditedOnlyAtPayee ==
    \A c \in credited : c.token.payee_device_id = c.dev

\* C5: across generateToken calls, resetCounter calls and app restarts on one
\* device with one signing key, the counters of the issued tokens are strictly
\* increasing in order of issue: none is reused, none is followed by a smaller
\* or equal one.
C5_CountersStrictlyIncreasing ==
    \A i, j \in 1..Len(issued) :
        i < j => issued[i].token.counter < issued[j].token.counter

\* C6: generateToken calls in flight at the same time, interleaved at their
\* awaits, return tokens with pairwise distinct counters.
C6_ConcurrentCountersDistinct ==
    \A i, j \in 1..Len(issued) :
        i # j => issued[i].token.counter # issued[j].token.counter

\* two calls that both entered generateToken before either took its counter
\* have both returned a token
C6_Witness ==
    \E i, j \in 1..Len(issued) : i # j /\ issued[i].seen = issued[j].seen

\* C7: in every reachable state of a wallet store, also after a failed SQL
\* statement of addMoney or deductMoney or an app stop between two statements,
\* the stored balance is the sum of the logged credits minus the sum of the
\* logged debits.
C7_BalanceMatchesLog ==
    \A d \in Devices :
        balance[d] = SumOf(txlog[d], "credit") - SumOf(txlog[d], "debit")

\* C8: a receive QR string that has been used for one reported-sent payment
\* is not validated again by validateQrPayload, also inside its expiry window.
C8_UsedGrantRejected ==
    scan.pc = "SendAmount" => scan.qr \notin completed

\* every fragment of sendToken call x has been notified to the listener
AllDelivered(x) ==
    /\ xfer[x].fragments # <<>>
    /\ \A i \in 0..(Len(xfer[x].fragments) - 1) :
          \E j \in 1..Len(delivered) : delivered[j] = [x |-> x, index |-> i]

\* C9: once the N chunks of one sendToken call have been notified to a fresh
\* listener, each once and in any order, the listener has reassembled the
\* original serialized string and called onTokenReceived exactly once, with
\* the original token; before that it has not called it.
C9_ShuffledChunksReassemble ==
    IF AllDelivered(1)
    THEN calls = <<[token |-> xfer[1].token, error |-> "",
                    str |-> serializeToken(xfer[1].token)]>>
    ELSE calls = <<>>

\* three or more chunks were notified with the last one first, and the
\* listener made its call
C9_Witness ==
    /\ AllDelivered(1)
    /\ Len(xfer[1].fragments) >= 3
    /\ delivered[1].index = Len(xfer[1].fragments) - 1
    /\ Len(calls) = 1

\* C10: whatever the listener is notified of, onTokenReceived is called with
\* a token only if every chunk index of a sendToken call for that token has
\* been notified.
C10_TokenOnlyFromCompleteTransfer ==
    \A k \in 1..Len(calls) :
        calls[k].error = ""
            => \E x \in XferIds :
                  xfer[x].token = calls[k].token /\ AllDelivered(x)

\* C11: every onTokenReceived call that reports a failure (a monitor error, a
\* failed reassembly or parse) leaves the listener's buffer empty: no stored
\* chunk and an expected count of 0.
C11_BufferEmptyAfterFailure ==
    [][(/\ Len(calls') = Len(calls) + 1
        /\ calls'[Len(calls')].error # "")
          => (receivedChunks' = NoChunks /\ expectedChunks' = 0)]_vars

\* The Receive screen is up and listening, the session and the native
\* peripheral advertise, and a sender is connected to the GATT server.
Receiving ==
    /\ screen.mounted # ""
    /\ screen.isListening
    /\ sessionState = "ADVERTISING"
    /\ native.isAdvertising
    /\ native.connectedDevice # ""

\* sendToken call x has written every chunk of its token and the GATT
\* server has taken every write
AllWritten(x) ==
    /\ xfer[x].pc = "done"
    /\ air = {}
    /\ emitted >= Len(xfer[x].fragments)

\* C12: when the Receive screen is listening and advertising and the
\* connected sender has written every chunk of a valid token to the TokPay
\* characteristic, the receiver eventually credits that token.
C12_WrittenTokenEventuallyCredited ==
    (Receiving /\ AllWritten(1) /\ VerifyToken(xfer[1].token, now))
        ~> (\E c \in credited : c.token = xfer[1].token)

\* C13: once handleTokenReceived has returned on a device for a token it
\* verified and credited, the device has invoked the peripheral's sendAck for
\* that token.
C13_AckAfterCredit ==
    \A c \in credited :
        rx[c.dev].pc = "idle" => [dev |-> c.dev, token |-> c.token] \in acks

\* C14: when processOfflinePayment returns, with success or failure, no
\* connection is open, currentDevice is null and no scan is running.
C14_NothingOpenOnReturn ==
    [][(pay.pc # "returned" /\ pay'.pc = "returned")
          => (conns' = {} /\ currentDevice' = "" /\ ~scanSubscription')]_vars

\* C15: once a stopAdvertising call has returned and no startAdvertising call
\* has been made since, the session is IDLE and the device does not
\* advertise, also when the stop was called while a start was in flight.
C15_IdleAfterStop ==
    \A a \in Screens :
        (stop[a].pc \in {"disconnect", "done"} /\ Called \subseteq stop[a].before)
            => (sessionState = "IDLE" /\ ~native.isAdvertising)

\* the startAdvertising calls made and not yet returned
AdvInFlight == {a \in Screens : adv[a] \in {"state", "peripheral", "resolved", "rejected"}}

\* C16: a startAdvertising call made while another one is in flight starts no
\* second GATT server: while both calls of the run are in flight together,
\* the native module holds at most one GATT server open.
C16_NoSecondGattServer ==
    AdvInFlight = Screens => Cardinality(native.open) <= 1

\* C17: from the first scanAndConnect call on, at most one peer connection
\* is open, and while the device a call resolved with is connected,
\* currentDevice is that device.
C17_OneConnection ==
    /\ Cardinality(conns) <= 1
    /\ (sac.outcome = "resolved" /\ currentDevice # "") => currentDevice = sac.result

\* C18: every scanAndConnect call eventually settles, whatever the BLE stack
\* leaves unanswered.
C18_ScanAndConnectSettles ==
    (sac.outcome = "pending") ~> (sac.outcome \in {"resolved", "rejected"})

C20_TamperedRejected ==
    trip.kind \in SignedFields => ~trip.accepted

\* the amount of a generated token was replaced by another positive amount
C20_Witness ==
    /\ trip.kind = "amount"
    /\ trip.parsed.amount > 0
    /\ trip.parsed.amount # trip.token.amount
    /\ trip.parsed.signature = trip.token.signature

\* C21: verifyToken turns down every token whose timestamp differs from the
\* receiver's clock by more than the skew window of 120 seconds, in the past
\* or in the future. The clock counts 5 minutes, so every difference of a
\* reading and a timestamp other than 0 is outside the window.
OutsideSkew(token, time) ==
    "timestamp" \in DOMAIN token /\ token.timestamp # time
C21_OutsideSkewRejected ==
    (trip.kind = "verify" /\ OutsideSkew(trip.parsed, trip.at)) => ~trip.accepted
\* C22: the freshness check is inclusive at its boundary: a token otherwise
\* valid whose age is the largest allowed age is accepted, and one a tick
\* older is rejected.
OtherwiseValid(token) ==
    /\ RequiredFields \subseteq DOMAIN token
    /\ token.amount > 0
    /\ VerifyDetached(TokenString(token), token.signature, token.payer_pubkey)
C22_BoundaryInclusive ==
    (trip.kind = "verify" /\ OtherwiseValid(trip.parsed)) =>
        /\ (trip.at - trip.parsed.timestamp = MAX_TOKEN_AGE => trip.accepted)
        /\ (trip.at - trip.parsed.timestamp = MAX_TOKEN_AGE + 1 => ~trip.accepted)
\* C22: a valid token of exactly the largest allowed age was verified and accepted
C22_Witness ==
    /\ trip.kind = "verify" /\ OtherwiseValid(trip.parsed)
    /\ trip.at - trip.parsed.timestamp = MAX_TOKEN_AGE
    /\ trip.accepted

\* C25: each reason verifyToken turns a token down for (a missing field, an
\* amount not positive, an expired token, a bad signature) reaches the caller
\* of applyReceivedPaymentToken as a failure of its own: two tokens turned
\* down for different reasons never give the caller the same failure.
C25_DistinctFailures ==
    (trip.kind = "verify" /\ ~trip.accepted) =>
        \A t \in PresentedTokens :
            RejectReason(t, trip.at) \notin {"", RejectReason(trip.parsed, trip.at)}
                => ApplyFailure(processReceivedToken(t, trip.at)) # trip.result

\* the strings generateReceiveQR has returned
IssuedGrants == {qrs[i] : i \in 1..Len(qrs)}

\* C23: a grant of generateReceiveQR passed to validateQrPayload inside its
\* expiry window is valid, and the result's deviceId, deviceName and
\* bleServiceUuid are the issuer's device id, its device name and the TokPay
\* service UUID.
C23_GrantRoundTrip ==
    /\ \A q \in IssuedGrants :
          now - JsonParse(q).tx.timestamp <= QR_EXPIRY_TIME_MS
              => validateQrPayload(q, now).valid
    /\ (scan.pc = "SendAmount" /\ scan.qr \in IssuedGrants) =>
          /\ {"deviceId", "deviceName", "bleServiceUuid"} \subseteq DOMAIN scan.validation
          /\ scan.validation.deviceId = JsonParse(scan.qr).conn.device_id
          /\ scan.validation.deviceName = JsonParse(scan.qr).conn.device_name
          /\ scan.validation.bleServiceUuid = TOKPAY_SERVICE_UUID

\* what a crafted payload carries, in either layout
GrantUuid(p) == IF "conn" \in DOMAIN p THEN p.conn.ble_service_uuid ELSE p.ble_service_uuid
GrantStamp(p) == IF "tx" \in DOMAIN p THEN p.tx.timestamp ELSE p.timestamp
GrantSigner(p) == p.signature.signer
Supported(p) == p.version \in {QR_PROTOCOL_V1, QR_PROTOCOL_V2}
ScannedCrafted == scan.qr # None /\ scan.qr \in CraftedGrants

\* C24: verifyReceiveQR checks version, service UUID, age and signature in
\* that order and reports the first that fails: an unsupported version is
\* reported whatever else is wrong, a wrong service UUID also on an expired or
\* badly signed grant, an expired grant also when it is badly signed.
C24_FirstFailingCheck ==
    ScannedCrafted =>
        LET p == JsonParse(scan.qr)
            error == scan.validation.error
            expired == now - GrantStamp(p) > QR_EXPIRY_TIME_MS
        IN /\ ~Supported(p) => error = "Invalid QR: Unsupported protocol version: 3.0"
           /\ (Supported(p) /\ GrantUuid(p) # TOKPAY_SERVICE_UUID)
                 => error = "Invalid QR: Invalid BLE service UUID"
           /\ (Supported(p) /\ GrantUuid(p) = TOKPAY_SERVICE_UUID /\ expired)
                 => error \in {"Invalid QR: QR code expired", "Invalid QR: QR intent expired"}
           /\ (Supported(p) /\ GrantUuid(p) = TOKPAY_SERVICE_UUID /\ ~expired
                  /\ GrantSigner(p) # "E1")
                 => error = "Invalid QR: Invalid signature"
\* C24: an expired version 2.0 grant signed by another key was scanned
C24_Witness ==
    /\ ScannedCrafted
    /\ JsonParse(scan.qr).version = QR_PROTOCOL_V2
    /\ GrantUuid(JsonParse(scan.qr)) = TOKPAY_SERVICE_UUID
    /\ now - GrantStamp(JsonParse(scan.qr)) > QR_EXPIRY_TIME_MS
    /\ GrantSigner(JsonParse(scan.qr)) # "E1"
    /\ scan.validation.error = "Invalid QR: QR intent expired"

\* C27: verifyReceiveQR rejects every grant older than 20 seconds. The clock
\* counts 5 minutes, so every grant stamped before the reading is older.
C27_OlderThanTwentySecondsRejected ==
    (ScannedCrafted /\ now - GrantStamp(JsonParse(scan.qr)) >= 1)
        => ~scan.validation.valid

\* C28: from app start or a resetSessionEphemeralKey call to the next reset,
\* every grant of generateReceiveQR carries the same ephemeral public key and
\* the keypair is generated at most once: a step that leaves a cached keypair
\* in place generates none, a grant carries the cached key, and a step
\* generates at most one keypair, only when none is cached.
GrantKey(q) == JsonParse(q).conn.ephemeral_public_key
C28_OneKeyPerSession ==
    [][/\ (sessionEphemeralKeypair # None /\ sessionEphemeralKeypair' # None)
            => (sessionEphemeralKeypair' = sessionEphemeralKeypair /\ keyGens' = keyGens)
       /\ sessionEphemeralKeypair = None => keyGens' <= keyGens + 1
       /\ Len(qrs') > Len(qrs)
            => GrantKey(qrs'[Len(qrs')]) = sessionEphemeralKeypair'.publicKey]_vars
\* C28: two grants were generated with one keypair
C28_Witness ==
    /\ Len(qrs) = 2
    /\ keyGens = 1
    /\ GrantKey(qrs[1]) = GrantKey(qrs[2])

\* C26: the stored balance of a wallet is never negative, however concurrent
\* addMoney and deductMoney calls interleave at their awaits.
C26_BalanceNeverNegative ==
    \A d \in Devices : balance[d] >= 0
\* C26: two deductMoney calls overlapped, both past their funds check and
\* their UPDATE
C26_Witness ==
    \E w1, w2 \in ScreenCalls :
        /\ w1 # w2
        /\ wcall[w1].type = "debit" /\ wcall[w1].pc = "insert"
        /\ wcall[w2].type = "debit" /\ wcall[w2].pc = "insert"

\* C30: when every addMoney and deductMoney call started on a wallet has
\* completed successfully (each has logged its row and none is running), the
\* balance is the initial balance 0 plus the credited amounts minus the
\* debited amounts, however the calls interleaved.
C30_NoLostUpdate ==
    \A d \in Devices :
        (Running(d) = {} /\ Len(txlog[d]) = wops[d]) =>
            balance[d] = SumOf(txlog[d], "credit") - SumOf(txlog[d], "debit")

\* sendToken has written every chunk of token t to the connected device
Transmitted(t) == \E m \in wire : m.token = t

\* C29: processOfflinePayment never transmits a token whose amount exceeds the
\* sender's balance: when its token has been written to the receiver and
\* deductMoney has just been called, the balance covers the amount, so the
\* debit that follows cannot be refused for insufficient funds.
C29_TransmittedAmountCovered ==
    (pay.pc = "deduct" /\ wcall[PayCall].pc = "select" /\ Transmitted(pay.token))
        => pay.token.amount <= balance[SenderDevice]

\* C31: scanAndConnect(targetDeviceId) connects to and resolves with only the
\* device whose id is targetDeviceId: during processOfflinePayment(amount,
\* payee) no other device advertising the service is connected to, the call
\* resolves with the payee, and the token is written to no other device.
C31_OnlyTargetConnected ==
    /\ pay.pc = "scan" => conns \subseteq {pay.payee}
    /\ (pay.pc = "scan" /\ sac.outcome = "resolved") => sac.result = pay.payee
    /\ \A m \in wire : m.to = m.token.payee_device_id

\* the promise screen a's flow passed to the native startAdvertising is stored
\* or was stored, and neither resolved nor rejected yet
PromisePending(a) == adv[a] = "peripheral"

\* C32: every promise passed to the native startAdvertising is settled: one
\* that is pending is resolved or rejected later, also when a second
\* startAdvertising call arrives before advertising has started.
C32_StartPromiseSettled ==
    \A a \in Screens : PromisePending(a) ~> ~PromisePending(a)

\* C33: the session state becomes CONNECTED only through markConnected called
\* in state ADVERTISING; markConnected called in state IDLE or CONNECTED
\* leaves the session state as it is.
C33_ConnectedOnlyFromAdvertising ==
    [][(sessionState' = "CONNECTED" /\ sessionState # "CONNECTED")
          => (sessionState = "ADVERTISING" /\ markConnected)]_vars
\* C33: markConnected has set the session CONNECTED
C33_Witness == sessionState = "CONNECTED"

\* C34: when the session manager's stopAdvertising returns the session state
\* is IDLE, stopping the native peripheral having failed or not, and when its
\* startAdvertising throws the session state is IDLE.
C34_IdleOnStopAndOnThrow ==
    [][\A a \in Screens :
          /\ (stop[a].pc # "disconnect" /\ stop'[a].pc = "disconnect")
                => sessionState' = "IDLE"
          /\ (adv[a] # "failed" /\ adv'[a] = "failed")
                => sessionState' = "IDLE"]_vars
\* C34: a startAdvertising call has thrown and a stopAdvertising call has
\* returned, the session being IDLE
C34_Witness ==
    /\ sessionState = "IDLE"
    /\ \E a \in Screens : adv[a] = "failed"
    /\ \E b \in Screens : stop[b].pc = "disconnect"

\* C35: for every serialized token and every write size of at least 20 bytes
\* the sizing loop of sendToken ends, and every chunk of its fragments, the
\* 'index/total:' header included, is no longer than the write size: the
\* write loop writes each of them and never throws for a chunk too long.
C35_ChunksFitWriteSize ==
    trip.kind = "fragment" =>
        /\ trip.maxWriteBytes >= 20
        /\ Len(trip.fragments) >= 1
        /\ Len(trip.chunks) = Len(trip.fragments)
        /\ \A i \in 1..Len(trip.chunks) :
              encodeUtf8ByteLength(trip.chunks[i]) <= trip.maxWriteBytes
\* C35: a token of ten chunks or more, whose last header is longer than its
\* first, was sized for the smallest write size and written whole
C35_Witness ==
    /\ trip.kind = "fragment"
    /\ trip.maxWriteBytes = 20
    /\ Len(trip.chunks) >= 10
    /\ Len(trip.chunks) = Len(trip.fragments)

\* C36: deductMoney with an amount above the balance it reads, and addMoney or
\* deductMoney with an amount of 0 or less, fail with an error and write
\* neither the stored balance nor the transaction log: a call goes on to its
\* SELECT only with a positive amount, a deductMoney whose SELECT reads less
\* than its amount fails there, and a call failing at its amount check or at
\* its SELECT leaves balance and log as they are.
C36_RejectedCallWritesNothing ==
    [][\A w \in WIds :
          /\ (wcall[w].pc = "idle" /\ wcall'[w].pc = "select")
                => wcall'[w].amount > 0
          /\ (/\ wcall[w].pc = "select" /\ wcall[w].type = "debit"
              /\ wcall[w].amount > balance[wcall[w].dev]
              /\ wcall'[w].pc \notin {"select", "idle"})
                => wcall'[w].pc = "failed"
          /\ (wcall[w].pc \in {"idle", "select"} /\ wcall'[w].pc = "failed")
                => (balance' = balance /\ txlog' = txlog)]_vars
\* C36: after one addMoney(1) a second call has failed, no call is running,
\* and the balance and the log are what the first call left
C36_Witness ==
    /\ \E w \in ScreenCalls : wcall[w].pc = "failed"
    /\ Running(SenderDevice) = {}
    /\ wops[SenderDevice] = 2
    /\ balance[SenderDevice] = 1
    /\ txlog[SenderDevice] = <<[type |-> "credit", amount |-> 1]>>

\* C37: the getDeviceIdentity calls made between two resets all return the
\* same deviceId, the one kept in storage, also when calls run concurrently on
\* first launch before an identity is stored.
C37_OneIdentity ==
    \A id \in identity.returned : id = identity.deviceId

====
